---- MODULE Spec2Model ----
(***************************************************************************)
(* Model of the Indic NLP Library normalizers                              *)
(* (src/indicnlp/normalize/indic_normalize.py).                            *)
(*                                                                         *)
(* A text is a sequence of Unicode code points (integers, written in hex   *)
(* as in the source: \H093C is U+093C).  A normalizer object is a record   *)
(* of the fields its constructor sets.  Every normalize() method is an     *)
(* operator that applies the method's statements in source order.          *)
(***************************************************************************)
EXTENDS Integers, Sequences, FiniteSets, TLC

VARIABLES
    normalizer,   \* the object get_normalizer returned (cls = "None" before / on failure)
    outcome,      \* how the factory call ended: "none", "ok" or the error raised
    pc,           \* "idle": no call in progress; "returned": normalize() has returned
    text,         \* argument of the last normalize() call
    pre,          \* the text BaseNormalizer.normalize received in that call
    result,       \* what that call produced: [raised, out]
    built,        \* the normalizer object as it was when construction returned
    requested,    \* the language code the factory was asked for
    process       \* a run of the module as a script: [argv, ifile, ofile, opened, at, next, status]

vars == <<normalizer, outcome, pc, text, pre, result, built, requested, process>>

(***************************************************************************)
(* Bounds of the model.                                                    *)
(***************************************************************************)
MaxLen == 3          \* longest input text, in code points

(***************************************************************************)
(* Python string primitives.                                               *)
(***************************************************************************)
AllChars == 0 .. \HFFFF

\* the texts of at most n code points over an alphabet
TextsOver(A, n) == UNION { [1..k -> A] : k \in 0..n }

\* Two statements in sequence: the value of x is taken first, then F of it.
Then(x, F(_)) == CHOOSE r \in { F(v) : v \in {x} } : TRUE

\* `if flag: text = F(text)`
When(flag, F(_), t) == IF flag THEN F(t) ELSE t

Contains(t, c) == \E i \in 1..Len(t) : t[i] = c

\* str.replace(pat, repl) from position i on: leftmost, non-overlapping
RECURSIVE ReplaceFrom(_, _, _, _)
ReplaceFrom(t, pat, repl, i) ==
    IF i > Len(t) THEN <<>>
    ELSE IF i + Len(pat) - 1 <= Len(t) /\ SubSeq(t, i, i + Len(pat) - 1) = pat
         THEN repl \o ReplaceFrom(t, pat, repl, i + Len(pat))
         ELSE <<t[i]>> \o ReplaceFrom(t, pat, repl, i + 1)

\* text.replace(pat, repl), pat non-empty
Replace(t, pat, repl) == ReplaceFrom(t, pat, repl, 1)

\* text.replace(a, b) for single characters a, b
ReplaceChar(t, a, b) == [i \in 1..Len(t) |-> IF t[i] = a THEN b ELSE t[i]]

\* text.replace(a, '')
RemoveChar(t, a) == SelectSeq(t, LAMBDA c : c # a)

\* A regular expression of the shapes the normalizers use is a sequence of
\* character classes (sets of code points), one per pattern position.  A
\* replacement template is a sequence whose positive items are literal code
\* points and whose item -k stands for the k-th matched character.
Matches(t, i, P) ==
    /\ i + Len(P) - 1 <= Len(t)
    /\ \A k \in 1..Len(P) : t[i + k - 1] \in P[k]

Expand(t, i, n, tpl) ==
    [k \in 1..Len(tpl) |->
        IF tpl[k] < 0 THEN (IF -tpl[k] <= n THEN t[i - tpl[k] - 1] ELSE 0)
        ELSE tpl[k]]

\* a group that matched the empty string (the `$` alternative) expands to nothing
ExpandAtEnd(t, i, n, tpl) ==
    LET keep == SelectSeq(tpl, LAMBDA x : x >= 0 \/ -x <= n)
    IN  Expand(t, i, n, keep)

\* re.sub(P, tpl, t): leftmost, non-overlapping matches, each consumed whole.
\* With endOk the last position of P may also match the end of the text
\* (the alternative `|$` of its group).
RECURSIVE SubFrom(_, _, _, _, _)
SubFrom(t, P, tpl, endOk, i) ==
    IF i > Len(t) THEN <<>>
    ELSE IF Matches(t, i, P)
         THEN Expand(t, i, Len(P), tpl) \o SubFrom(t, P, tpl, endOk, i + Len(P))
    ELSE IF /\ endOk
            /\ i + Len(P) - 2 = Len(t)
            /\ Matches(t, i, SubSeq(P, 1, Len(P) - 1))
         THEN ExpandAtEnd(t, i, Len(P) - 1, tpl)
    ELSE <<t[i]>> \o SubFrom(t, P, tpl, endOk, i + 1)

Sub(t, P, tpl) == SubFrom(t, P, tpl, FALSE, 1)
SubOrEnd(t, P, tpl) == SubFrom(t, P, tpl, TRUE, 1)

\* text.split(' ')
RECURSIVE SplitFrom(_, _, _)
SplitFrom(t, i, word) ==
    IF i > Len(t) THEN <<word>>
    ELSE IF t[i] = \H0020 THEN <<word>> \o SplitFrom(t, i + 1, <<>>)
    ELSE SplitFrom(t, i + 1, Append(word, t[i]))

Split(t) == SplitFrom(t, 1, <<>>)

\* ' '.join(words)
RECURSIVE Join(_)
Join(words) ==
    IF Len(words) = 0 THEN <<>>
    ELSE IF Len(words) = 1 THEN words[1]
    ELSE words[1] \o <<\H0020>> \o Join(Tail(words))

(***************************************************************************)
(* NormalizerI: the characters of the common cleanup and the punctuation   *)
(* stage.                                                                  *)
(***************************************************************************)
BYTE_ORDER_MARK == \HFEFF
BYTE_ORDER_MARK_2 == \HFFFE
WORD_JOINER == \H2060
SOFT_HYPHEN == \H00AD
ZERO_WIDTH_SPACE == \H200B
NO_BREAK_SPACE == \H00A0
ZERO_WIDTH_NON_JOINER == \H200C
ZERO_WIDTH_JOINER == \H200D

SPACE == \H0020
DQUOTE == \H0022
APOS == \H0027
HYPHEN == \H002D
PERIOD == \H002E
COLON == \H003A
PIPE == \H007C

\* A faulty punctuation stage that joins doubled apostrophes before it
\* rewrites the single-quote variants: C16_NoTypographicVariant must fail for it.
PunctuationsPairsFirst(t0) ==
    LET t1  == RemoveChar(t0, BYTE_ORDER_MARK)
        t2  == ReplaceChar(t1, \H201E, DQUOTE)
        t3  == ReplaceChar(t2, \H201C, DQUOTE)
        t4  == ReplaceChar(t3, \H201D, DQUOTE)
        t5  == ReplaceChar(t4, \H2013, HYPHEN)
        t6  == Replace(t5, <<\H2014>>, <<SPACE, HYPHEN, SPACE>>)
        t7  == Replace(t6, <<APOS, APOS>>, <<DQUOTE>>)
        t8  == ReplaceChar(t7, \H00B4, APOS)
        t9  == ReplaceChar(t8, \H2018, APOS)
        t10 == ReplaceChar(t9, \H201A, APOS)
        t11 == ReplaceChar(t10, \H2019, APOS)
        t12 == Replace(t11, <<\H2026>>, <<PERIOD, PERIOD, PERIOD>>)
    IN  t12

_normalize_punctuations(t0) ==
    LET t1  == RemoveChar(t0, BYTE_ORDER_MARK)
        t2  == ReplaceChar(t1, \H201E, DQUOTE)
        t3  == ReplaceChar(t2, \H201C, DQUOTE)
        t4  == ReplaceChar(t3, \H201D, DQUOTE)
        t5  == ReplaceChar(t4, \H2013, HYPHEN)
        t6  == Replace(t5, <<\H2014>>, <<SPACE, HYPHEN, SPACE>>)
        t7  == ReplaceChar(t6, \H00B4, APOS)
        t8  == ReplaceChar(t7, \H2018, APOS)
        t9  == ReplaceChar(t8, \H201A, APOS)
        t10 == ReplaceChar(t9, \H2019, APOS)
        t11 == Replace(t10, <<APOS, APOS>>, <<DQUOTE>>)
        t12 == Replace(t11, <<\H00B4, \H00B4>>, <<DQUOTE>>)
        t13 == Replace(t12, <<\H2026>>, <<PERIOD, PERIOD, PERIOD>>)
    IN  t13

(***************************************************************************)
(* langinfo: the script profile table and the offset codec.                *)
(***************************************************************************)
ScriptBase(lang) ==
    CASE lang \in {"hi", "mr", "kK", "ne", "sa", "sd_IN", "ks_IN"} -> \H0900
      [] lang \in {"bn", "as"} -> \H0980
      [] lang = "pa" -> \H0A00
      [] lang = "gu" -> \H0A80
      [] lang = "or" -> \H0B00
      [] lang = "ta" -> \H0B80
      [] lang = "te" -> \H0C00
      [] lang = "kn" -> \H0C80
      [] lang = "ml" -> \H0D00
      [] lang = "si" -> \H0D80

ProfiledLanguages ==
    {"hi", "mr", "kK", "ne", "sa", "sd_IN", "ks_IN", "bn", "as", "pa", "gu",
     "or", "ta", "te", "kn", "ml", "si"}

HasProfile(lang) == lang \in ProfiledLanguages

DRAVIDIAN_LANGUAGES == {"ta", "te", "kn", "ml"}
IE_LANGUAGES == ProfiledLanguages \ DRAVIDIAN_LANGUAGES

NUMERIC_OFFSET_START == \H66
HALANTA_OFFSET == \H4D

offset_to_char(off, lang) == ScriptBase(lang) + off

get_offset(c, lang) == c - ScriptBase(lang)

is_consonant(c, lang) == get_offset(c, lang) >= \H15 /\ get_offset(c, lang) <= \H39

\* the 128 code points of the language's script block
ScriptBlock(lang) == ScriptBase(lang) .. (ScriptBase(lang) + \H7F)

(***************************************************************************)
(* BaseNormalizer.                                                         *)
(***************************************************************************)
BaseParams ==
    {"remove_nuktas", "decompose_nuktas", "nasals_mode", "do_normalize_chandras",
     "do_normalize_vowel_ending", "do_normalize_numerals",
     "convert_numerals_to_native", "do_colon_to_visarga"}

\* _init_normalize_chandras: (match, replacement) pairs, in order
chandra_substitutions(lang) ==
    LET offs == << <<\H0D, \H0F>>, <<\H11, \H13>>, <<\H45, \H47>>,
                   <<\H49, \H4B>>, <<\H00, \H02>>, <<\H01, \H02>> >>
    IN  [k \in 1..Len(offs) |->
            <<offset_to_char(offs[k][1], lang), offset_to_char(offs[k][2], lang)>>]

RECURSIVE ApplyCharPairs(_, _, _)
ApplyCharPairs(t, pairs, k) ==
    IF k > Len(pairs) THEN t
    ELSE ApplyCharPairs(ReplaceChar(t, pairs[k][1], pairs[k][2]), pairs, k + 1)

_normalize_chandras(t, lang) == ApplyCharPairs(t, chandra_substitutions(lang), 1)

\* (nasal, first consonant, last consonant) offsets of the homorganic rows
pat_signatures ==
    << <<\H19, \H15, \H18>>,
       <<\H1E, \H1A, \H1D>>,
       <<\H23, \H1F, \H22>>,
       <<\H28, \H24, \H27>>,
       <<\H29, \H24, \H27>>,
       <<\H2E, \H2A, \H2D>> >>

anusvaara_offset == \H02

RowRange(sig, lang) == offset_to_char(sig[2], lang) .. offset_to_char(sig[3], lang)

\* one pattern of _init_to_anusvaara_strict: nasal halant ([start-end]) -> anusvaara \1
StrictRow(t, sig, lang) ==
    Sub(t,
        << {offset_to_char(sig[1], lang)},
           {offset_to_char(HALANTA_OFFSET, lang)},
           RowRange(sig, lang) >>,
        << offset_to_char(anusvaara_offset, lang), -3 >>)

RECURSIVE StrictFrom(_, _, _)
StrictFrom(t, lang, k) ==
    IF k > Len(pat_signatures) THEN t
    ELSE StrictFrom(StrictRow(t, pat_signatures[k], lang), lang, k + 1)

\* A faulty strict conversion that accepts any consonant after the halant,
\* whatever the row of the nasal: C20_StrictOnlyHomorganic must fail for it.
StrictAnyConsonant(t, lang) ==
    Sub(t,
        << { offset_to_char(pat_signatures[k][1], lang) : k \in 1..Len(pat_signatures) },
           {offset_to_char(HALANTA_OFFSET, lang)},
           offset_to_char(\H15, lang) .. offset_to_char(\H39, lang) >>,
        << offset_to_char(anusvaara_offset, lang), -3 >>)

_to_anusvaara_strict(t, lang) == StrictFrom(t, lang, 1)

\* _init_to_anusvaara_relaxed: the class is built by joining the nasals with
\* ',', so the comma is a member of the character class
nasals_list == <<\H19, \H1E, \H23, \H28, \H29, \H2E>>
COMMA == \H002C

RelaxedClass(lang) ==
    { offset_to_char(nasals_list[k], lang) : k \in 1..Len(nasals_list) } \cup {COMMA}

_to_anusvaara_relaxed(t, lang) ==
    Sub(t,
        << RelaxedClass(lang), {offset_to_char(HALANTA_OFFSET, lang)} >>,
        << offset_to_char(anusvaara_offset, lang) >>)

\* one pattern of _init_to_nasal_consonants: anusvaara ([start-end]) -> nasal halant \1
NasalRow(t, sig, lang) ==
    Sub(t,
        << {offset_to_char(anusvaara_offset, lang)}, RowRange(sig, lang) >>,
        << offset_to_char(sig[1], lang), offset_to_char(HALANTA_OFFSET, lang), -2 >>)

RECURSIVE NasalFrom(_, _, _)
NasalFrom(t, lang, k) ==
    IF k > Len(pat_signatures) THEN t
    ELSE NasalFrom(NasalRow(t, pat_signatures[k], lang), lang, k + 1)

\* A faulty reverse conversion that knows the velar row only:
\* C8_RoundTrip must fail for it.
VelarRowOnly(t, lang) == NasalRow(t, pat_signatures[1], lang)

_to_nasal_consonants(t, lang) == NasalFrom(t, lang, 1)

_normalize_nasals(t, n) ==
    IF n.nasals_mode = "to_anusvaara_strict" THEN _to_anusvaara_strict(t, n.lang)
    ELSE IF n.nasals_mode = "to_anusvaara_relaxed" THEN _to_anusvaara_relaxed(t, n.lang)
    ELSE IF n.nasals_mode = "to_nasal_consonants" THEN _to_nasal_consonants(t, n.lang)
    ELSE t

_normalize_word_vowel_ending_dravidian(word, lang) ==
    IF Len(word) > 0 /\ is_consonant(word[Len(word)], lang)
    THEN Append(word, offset_to_char(\H3E, lang))
    ELSE word

_normalize_word_vowel_ending_ie(word, lang) ==
    IF Len(word) > 0 /\ is_consonant(word[Len(word)], lang)
    THEN Append(word, offset_to_char(HALANTA_OFFSET, lang))
    ELSE word

\* _init_normalize_vowel_ending selects the word function by language family
fn_vowel_ending(word, lang) ==
    IF lang \in IE_LANGUAGES THEN _normalize_word_vowel_ending_ie(word, lang)
    ELSE IF lang \in DRAVIDIAN_LANGUAGES
         THEN _normalize_word_vowel_ending_dravidian(word, lang)
    ELSE word

_normalize_vowel_ending(t, lang) ==
    LET words == Split(t)
    IN  Join([k \in 1..Len(words) |-> fn_vowel_ending(words[k], lang)])

DIGIT_ZERO == \H0030

\* text.translate(native_to_hindu_numerals_translator)
native_to_hindu_numerals(t, lang) ==
    LET zero == offset_to_char(NUMERIC_OFFSET_START, lang)
    IN  [i \in 1..Len(t) |->
            IF t[i] >= zero /\ t[i] <= zero + 9 THEN DIGIT_ZERO + (t[i] - zero)
            ELSE t[i]]

\* text.translate(hindu_numerals_to_native_translator)
hindu_numerals_to_native(t, lang) ==
    LET zero == offset_to_char(NUMERIC_OFFSET_START, lang)
    IN  [i \in 1..Len(t) |->
            IF t[i] >= DIGIT_ZERO /\ t[i] <= DIGIT_ZERO + 9 THEN zero + (t[i] - DIGIT_ZERO)
            ELSE t[i]]

\* A faulty cleanup that forgets the last replace call (the joiner stays):
\* C7_NoJoinersNoBOM must fail for it.
CleanupKeepingJoiner(t0) ==
    LET t1 == RemoveChar(t0, BYTE_ORDER_MARK)
        t2 == RemoveChar(t1, BYTE_ORDER_MARK_2)
        t3 == RemoveChar(t2, WORD_JOINER)
        t4 == RemoveChar(t3, SOFT_HYPHEN)
        t5 == ReplaceChar(t4, ZERO_WIDTH_SPACE, SPACE)
        t6 == ReplaceChar(t5, NO_BREAK_SPACE, SPACE)
        t7 == RemoveChar(t6, ZERO_WIDTH_NON_JOINER)
    IN  t7

\* the common cleanup: the eight replace calls that open BaseNormalizer.normalize
Cleanup(t0) ==
    LET t1 == RemoveChar(t0, BYTE_ORDER_MARK)
        t2 == RemoveChar(t1, BYTE_ORDER_MARK_2)
        t3 == RemoveChar(t2, WORD_JOINER)
        t4 == RemoveChar(t3, SOFT_HYPHEN)
        t5 == ReplaceChar(t4, ZERO_WIDTH_SPACE, SPACE)
        t6 == ReplaceChar(t5, NO_BREAK_SPACE, SPACE)
        t7 == RemoveChar(t6, ZERO_WIDTH_NON_JOINER)
        t8 == RemoveChar(t7, ZERO_WIDTH_JOINER)
    IN  t8

BaseNormalize(t0, n) ==
    LET punctuations(t) == _normalize_punctuations(t)
        chandras(t) ==
            IF n.opt["do_normalize_chandras"] THEN _normalize_chandras(t, n.lang) ELSE t
        nasals(t) == _normalize_nasals(t, n)
        vowel_ending(t) ==
            IF n.opt["do_normalize_vowel_ending"]
            THEN _normalize_vowel_ending(t, n.lang) ELSE t
        numerals(t) ==
            IF n.opt["do_normalize_numerals"] THEN native_to_hindu_numerals(t, n.lang)
            ELSE IF n.opt["convert_numerals_to_native"]
                 THEN hindu_numerals_to_native(t, n.lang)
            ELSE t
    IN  Then(Then(Then(Then(Then(Cleanup(t0), punctuations), chandras), nasals),
                  vowel_ending), numerals)

(***************************************************************************)
(* The nukta stage shared by the Devanagari, Gurmukhi, Oriya and Bengali   *)
(* normalizers: `pairs` lists <<precomposed letter, base letter>> in the    *)
(* order of the source's replace calls.                                    *)
(***************************************************************************)
\* A faulty fold that leaves the precomposed letters in place:
\* C10_RemoveNuktas must fail for it.
KeepComposites(t, pairs, k) == t

RECURSIVE RemoveComposites(_, _, _)
RemoveComposites(t, pairs, k) ==
    IF k > Len(pairs) THEN t
    ELSE RemoveComposites(ReplaceChar(t, pairs[k][1], pairs[k][2]), pairs, k + 1)

RECURSIVE DecomposeNuktas(_, _, _, _)
DecomposeNuktas(t, nukta, pairs, k) ==
    IF k > Len(pairs) THEN t
    ELSE DecomposeNuktas(Replace(t, <<pairs[k][1]>>, <<pairs[k][2], nukta>>),
                         nukta, pairs, k + 1)

\* A faulty recomposition that joins nothing: C9_NuktaRoundTrip must fail for it.
RecomposeNothing(t, nukta, pairs, k) == t

RECURSIVE RecomposeNuktas(_, _, _, _)
RecomposeNuktas(t, nukta, pairs, k) ==
    IF k > Len(pairs) THEN t
    ELSE RecomposeNuktas(Replace(t, <<pairs[k][2], nukta>>, <<pairs[k][1]>>),
                         nukta, pairs, k + 1)

\* if self.remove_nuktas: ... else: if self.decompose_nuktas: ... else: ...
NuktaStage(t, n, nukta, pairs) ==
    IF n.opt["remove_nuktas"]
    THEN RemoveComposites(RemoveChar(t, nukta), pairs, 1)
    ELSE IF n.opt["decompose_nuktas"]
         THEN DecomposeNuktas(t, nukta, pairs, 1)
         ELSE RecomposeNuktas(t, nukta, pairs, 1)

\* A faulty colon rule that does not look at the block of the preceding
\* character: C11_ColonAfterScriptChar must fail for it.
ColonAfterAnything(t, block, visarga) == Sub(t, <<AllChars, {COLON}>>, <<-1, visarga>>)

\* re.sub(r'([block]):', '\\1<visarga>', text)
ColonToVisarga(t, block, visarga) == Sub(t, <<block, {COLON}>>, <<-1, visarga>>)

POORNA_VIRAMA == \H0964
DEERGHA_VIRAMA == \H0965

(***************************************************************************)
(* DevanagariNormalizer.                                                   *)
(***************************************************************************)
DevanagariNUKTA == \H093C

DevanagariNuktaPairs ==
    << <<\H0929, \H0928>>, <<\H0931, \H0930>>, <<\H0934, \H0933>>,
       <<\H0958, \H0915>>, <<\H0959, \H0916>>, <<\H095A, \H0917>>,
       <<\H095B, \H091C>>, <<\H095C, \H0921>>, <<\H095D, \H0922>>,
       <<\H095E, \H092B>>, <<\H095F, \H092F>> >>

\* A faulty vowel step that leaves the last pair of its table alone:
\* C17_TwoPartVowelsMerged must fail for it.
VowelsWithoutAu(t0) ==
    LET t1 == Replace(t0, <<\H093E, \H093A>>, <<\H093B>>)
        t2 == Replace(t1, <<\H093E, \H0945>>, <<\H0949>>)
        t3 == Replace(t2, <<\H093E, \H0946>>, <<\H094A>>)
        t4 == Replace(t3, <<\H093E, \H0947>>, <<\H094B>>)
    IN  t4

DevanagariNormalizeVowels(t0) ==
    LET t1 == Replace(t0, <<\H093E, \H093A>>, <<\H093B>>)
        t2 == Replace(t1, <<\H093E, \H0945>>, <<\H0949>>)
        t3 == Replace(t2, <<\H093E, \H0946>>, <<\H094A>>)
        t4 == Replace(t3, <<\H093E, \H0947>>, <<\H094B>>)
        t5 == Replace(t4, <<\H093E, \H0948>>, <<\H094C>>)
    IN  t5

\* the statements of DevanagariNormalizer.normalize after the call of the super class
DevanagariPost(t1, n) ==
    LET vowels(t) == DevanagariNormalizeVowels(t)
        nuktas(t) == NuktaStage(t, n, DevanagariNUKTA, DevanagariNuktaPairs)
        pipe(t) == ReplaceChar(t, PIPE, POORNA_VIRAMA)
        colon(t) == IF n.opt["do_colon_to_visarga"]
                    THEN ColonToVisarga(t, \H0900 .. \H097F, \H0903) ELSE t
    IN  Then(Then(Then(vowels(t1), nuktas), pipe), colon)

(***************************************************************************)
(* KashmiriDevanagariNormalizer.                                           *)
(***************************************************************************)
_1995_to_2002_orthography(t0, convert_vowels_with_apostrophe_to_short) ==
    LET t1  == Replace(t0, <<\H0941, \H0945>>, <<\H0956>>)
        t2  == Replace(t1, <<\H0945, \H0941>>, <<\H0956>>)
        t3  == Replace(t2, <<\H0942, \H0945>>, <<\H0957>>)
        t4  == Replace(t3, <<\H0945, \H0942>>, <<\H0957>>)
        t5  == Sub(t4, << (\H0915 .. \H0939) \cup (\H0958 .. \H095F) \cup {\H093C},
                          {\H093D} >>, <<-1, \H0945>>)
        t6  == When(convert_vowels_with_apostrophe_to_short,
                    LAMBDA u : Replace(Replace(Replace(u, <<\H0947, APOS>>, <<\H0946>>),
                                               <<\H094B, APOS>>, <<\H094A>>),
                                       <<\H094C, APOS>>, <<\H094F>>),
                    t5)
        t7  == Replace(t6, <<\H0909, \H0945>>, <<\H0976>>)
        t8  == Replace(t7, <<\H090A, \H0945>>, <<\H0977>>)
        t9  == ReplaceChar(t8, \H093D, \H0972)
        t10 == When(convert_vowels_with_apostrophe_to_short,
                    LAMBDA u : Replace(Replace(Replace(u, <<\H090F, APOS>>, <<\H090E>>),
                                               <<\H0913, APOS>>, <<\H0912>>),
                                       <<\H0914, APOS>>, <<\H0975>>),
                    t9)
    IN  t10

_2002_to_2009_orthography(t0) ==
    LET t1 == ReplaceChar(t0, \H0945, \H093A)
        t2 == ReplaceChar(t1, \H0949, \H093B)
        t3 == Sub(t2, << {\H094D}, {\H0935}, AllChars \ (\H093A .. \H0957) >>,
                  <<\H094F, -3>>)
        t4 == ReplaceChar(t3, \H0972, \H0973)
        t5 == ReplaceChar(t4, \H0911, \H0974)
    IN  t5

\* A faulty ordering in which the 2002-to-2009 conversion runs before the
\* 1995-to-2002 conversion: C23_KashmiriOldSignsGone must fail for it.
KashmiriPost2009First(t0, n) ==
    LET to_2002(t) ==
            IF n.opt["do_convert_1995_to_2002_orthography"]
            THEN _1995_to_2002_orthography(
                     t, n.opt["do_convert_vowels_with_apostrophe_to_short"])
            ELSE t
        to_2009(t) ==
            IF n.opt["do_convert_2002_to_2009_orthography"]
            THEN _2002_to_2009_orthography(t) ELSE t
    IN  Then(Then(DevanagariPost(t0, n), to_2009), to_2002)

KashmiriDevanagariPost(t0, n) ==
    LET to_2002(t) ==
            IF n.opt["do_convert_1995_to_2002_orthography"]
            THEN _1995_to_2002_orthography(
                     t, n.opt["do_convert_vowels_with_apostrophe_to_short"])
            ELSE t
        to_2009(t) ==
            IF n.opt["do_convert_2002_to_2009_orthography"]
            THEN _2002_to_2009_orthography(t) ELSE t
    IN  Then(Then(DevanagariPost(t0, n), to_2002), to_2009)

(***************************************************************************)
(* SanskritNormalizer.                                                     *)
(***************************************************************************)
AccentMarks == (\H0951 .. \H0954) \cup (\H1CD0 .. \H1CFF) \cup {\H0971}

DropAccent(t0) ==
    LET t1 == Sub(t0, << {\H0967, \H0969}, {\H0951, \H0952} >>, <<>>)
    IN  SelectSeq(t1, LAMBDA c : c \notin AccentMarks)

\* the statements after the call of the super class, up to the sandhi stage
SanskritPost(t0, n) ==
    LET accent(t) == IF n.opt["do_drop_accent"] THEN DropAccent(t) ELSE t
    IN  Then(DevanagariPost(t0, n), accent)

SandhiChars == (\H0900 .. \H0963) \cup (\H0972 .. \H097F)

\* re.findall('[ऀ-ॣॲ-ॿ]+', text): the maximal runs
RECURSIVE ChunksFrom(_, _, _)
ChunksFrom(t, i, run) ==
    IF i > Len(t) THEN (IF Len(run) > 0 THEN <<run>> ELSE <<>>)
    ELSE IF t[i] \in SandhiChars THEN ChunksFrom(t, i + 1, Append(run, t[i]))
    ELSE (IF Len(run) > 0 THEN <<run>> ELSE <<>>) \o ChunksFrom(t, i + 1, <<>>)

Chunks(t) == ChunksFrom(t, 1, <<>>)

\* The third-party sandhi parser (sanskrit_parser.Parser.split followed by the
\* join of the transcoded splits).  Its answer is not decided by this
\* repository: `ps` is the behaviour it shows in one call, "none" (no split
\* found, split_seqs is empty) or "split" (the chunk is split after its first
\* letter).  The empty text stands for `not split_seqs`.
ParserBehaviours == {"none", "split"}

ParserSplit(ps, chunk) ==
    IF ps = "split" /\ Len(chunk) >= 2
    THEN <<chunk[1], SPACE>> \o Tail(chunk)
    ELSE <<>>

CacheHas(cache, chunk) == \E e \in cache : e[1] = chunk
CacheGet(cache, chunk) == (CHOOSE e \in cache : e[1] = chunk)[2]

\* the body of `for match in matches:` from the k-th match on
RECURSIVE SandhiLoop(_, _, _, _, _)
SandhiLoop(t, matches, k, cache, ps) ==
    IF k > Len(matches) THEN [out |-> t, cache |-> cache]
    ELSE LET m == matches[k]
         IN  IF CacheHas(cache, m)
             THEN SandhiLoop(Replace(t, m, CacheGet(cache, m)), matches, k + 1, cache, ps)
             ELSE LET sp == ParserSplit(ps, m)
                  IN  IF sp = <<>>
                      THEN SandhiLoop(t, matches, k + 1, cache \cup {<<m, m>>}, ps)
                      ELSE SandhiLoop(Replace(t, m, sp), matches, k + 1,
                                      cache \cup {<<m, sp>>}, ps)

\* `if self.do_split_sandhi:` of SanskritNormalizer.normalize on the text t1:
\* what is raised, the text returned, and the sandhi cache afterwards.
\* `match not in self.sandhi_cache` is an AttributeError when the constructor
\* did not create the attribute.
SplitSandhi(t1, n, ps) ==
    LET matches == Chunks(t1)
    IN  IF Len(matches) > 0 /\ ~n.has_sandhi_cache
        THEN [raised |-> "AttributeError", out |-> <<>>, cache |-> n.sandhi_cache]
        ELSE LET r == SandhiLoop(t1, matches, 1, n.sandhi_cache, ps)
             IN  [raised |-> "none", out |-> r.out, cache |-> r.cache]

(***************************************************************************)
(* GurmukhiNormalizer.                                                     *)
(***************************************************************************)
GurmukhiNUKTA == \H0A3C

GurmukhiNuktaPairs ==
    << <<\H0A33, \H0A32>>, <<\H0A36, \H0A38>>, <<\H0A59, \H0A16>>,
       <<\H0A5A, \H0A17>>, <<\H0A5B, \H0A1C>>, <<\H0A5E, \H0A2B>> >>

\* VOWEL_NORM_MAPS, in insertion order: <<first, second, replacement>>
GurmukhiVOWEL_NORM_MAPS ==
    << <<\H0A05, \H0A3E, \H0A06>>, <<\H0A72, \H0A3F, \H0A07>>,
       <<\H0A72, \H0A40, \H0A08>>, <<\H0A73, \H0A41, \H0A09>>,
       <<\H0A73, \H0A42, \H0A0A>>, <<\H0A72, \H0A47, \H0A0F>>,
       <<\H0A05, \H0A48, \H0A10>>, <<\H0A73, \H0A4B, \H0A13>>,
       <<\H0A05, \H0A4C, \H0A14>> >>

\* for k, v in MAPS.items(): text = text.replace(k, v)
RECURSIVE ApplyVowelMaps(_, _, _)
ApplyVowelMaps(t, maps, k) ==
    IF k > Len(maps) THEN t
    ELSE ApplyVowelMaps(Replace(t, <<maps[k][1], maps[k][2]>>, <<maps[k][3]>>),
                        maps, k + 1)

GurmukhiNormalizeVowels(t0, n) ==
    LET t1 == ApplyVowelMaps(t0, GurmukhiVOWEL_NORM_MAPS, 1)
    IN  When(n.opt["do_replace_vowel_bases"],
             LAMBDA u : ReplaceChar(ReplaceChar(u, \H0A72, \H0A07), \H0A73, \H0A09),
             t1)

NEWLINE == \H000A

\* the statements of GurmukhiNormalizer.normalize before the call of the
\* super class: addak, tippi, vowels
GurmukhiPre(t0, n) ==
    LET t1 == When(n.opt["do_canonicalize_addak"],
                   LAMBDA u : Sub(u, << {\H0A71}, AllChars \ {NEWLINE} >>,
                                  <<-2, \H0A4D, -2>>),
                   t0)
        t2 == When(n.opt["do_canonicalize_tippi"],
                   LAMBDA u : ReplaceChar(u, \H0A70, \H0A02), t1)
    IN  GurmukhiNormalizeVowels(t2, n)

\* the statements after the call of the super class
GurmukhiPost(t0, n) ==
    LET t1 == NuktaStage(t0, n, GurmukhiNUKTA, GurmukhiNuktaPairs)
        t2 == ReplaceChar(t1, \H0A64, POORNA_VIRAMA)
        t3 == ReplaceChar(t2, \H0A65, DEERGHA_VIRAMA)
        t4 == ReplaceChar(t3, PIPE, POORNA_VIRAMA)
    IN  When(n.opt["do_colon_to_visarga"],
             LAMBDA u : ColonToVisarga(u, \H0A00 .. \H0A7F, \H0A03), t4)

(***************************************************************************)
(* GujaratiNormalizer.                                                     *)
(***************************************************************************)
GujaratiNUKTA == \H0ABC

GujaratiPost(t1, n) ==
    LET t2 == IF n.opt["remove_nuktas"] THEN RemoveChar(t1, GujaratiNUKTA) ELSE t1
        t3 == ReplaceChar(t2, \H0AE4, POORNA_VIRAMA)
        t4 == ReplaceChar(t3, \H0AE5, DEERGHA_VIRAMA)
    IN  When(n.opt["do_colon_to_visarga"],
             LAMBDA u : ColonToVisarga(u, \H0A80 .. \H0AFF, \H0A83), t4)

(***************************************************************************)
(* OriyaNormalizer.                                                        *)
(***************************************************************************)
OriyaNUKTA == \H0B3C

OriyaNuktaPairs == << <<\H0B5C, \H0B21>>, <<\H0B5D, \H0B22>> >>

OriyaVOWEL_NORM_MAPS ==
    << <<\H0B05, \H0B3E, \H0B06>>, <<\H0B0F, \H0B57, \H0B10>>,
       <<\H0B13, \H0B57, \H0B14>> >>

OriyaPost(t1, n) ==
    LET t2  == ApplyVowelMaps(t1, OriyaVOWEL_NORM_MAPS, 1)
        t3  == NuktaStage(t2, n, OriyaNUKTA, OriyaNuktaPairs)
        t4  == ReplaceChar(t3, \H0B64, POORNA_VIRAMA)
        t5  == ReplaceChar(t4, \H0B65, DEERGHA_VIRAMA)
        t6  == ReplaceChar(t5, \H0B7C, POORNA_VIRAMA)
        t7  == ReplaceChar(t6, \H0B35, \H0B71)
        t8  == When(n.opt["do_remap_wa"], LAMBDA u : ReplaceChar(u, \H0B71, \H0B2C), t7)
        t9  == Replace(t8, <<\H0B47, \H0B56>>, <<\H0B58>>)
        t10 == Replace(t9, <<\H0B47, \H0B3E>>, <<\H0B4B>>)
        t11 == Replace(t10, <<\H0B47, \H0B57>>, <<\H0B4C>>)
    IN  When(n.opt["do_colon_to_visarga"],
             LAMBDA u : ColonToVisarga(u, \H0B00 .. \H0B7F, \H0B03), t11)

(***************************************************************************)
(* BengaliNormalizer (also built for Assamese, lang = "as").               *)
(***************************************************************************)
BengaliNUKTA == \H09BC

BengaliNuktaPairs ==
    << <<\H09DC, \H09A1>>, <<\H09DD, \H09A2>>, <<\H09DF, \H09AF>> >>

BengaliPost(t1, n) ==
    LET t2  == NuktaStage(t1, n, BengaliNUKTA, BengaliNuktaPairs)
        t3  == When(n.lang = "as",
                    LAMBDA u : IF n.opt["do_remap_assamese_chars"]
                               THEN ReplaceChar(ReplaceChar(u, \H09F0, \H09B0),
                                                \H09F1, \H09AC)
                               ELSE ReplaceChar(u, \H09B0, \H09F0),
                    t2)
        t4  == ReplaceChar(t3, \H09E4, POORNA_VIRAMA)
        t5  == ReplaceChar(t4, \H09E5, DEERGHA_VIRAMA)
        t6  == ReplaceChar(t5, PIPE, POORNA_VIRAMA)
        t7  == ReplaceChar(t6, \H09F7, POORNA_VIRAMA)
        t8  == Replace(t7, <<\H09C7, \H09BE>>, <<\H09CB>>)
        t9  == Replace(t8, <<\H09C7, \H09D7>>, <<\H09CC>>)
    IN  When(n.opt["do_colon_to_visarga"],
             LAMBDA u : ColonToVisarga(u, \H0980 .. \H09FF, \H0983), t9)

(***************************************************************************)
(* TamilNormalizer.                                                        *)
(***************************************************************************)
TamilPost(t1, n) ==
    LET t2  == ReplaceChar(t1, \H0BE4, POORNA_VIRAMA)
        t3  == ReplaceChar(t2, \H0BE5, DEERGHA_VIRAMA)
        t4  == Replace(t3, <<\H0B92, \H0BD7>>, <<\H0B94>>)
        t5  == Replace(t4, <<\H0BC6, \H0BBE>>, <<\H0BCA>>)
        t6  == Replace(t5, <<\H0BC7, \H0BBE>>, <<\H0BCB>>)
        t7  == Replace(t6, <<\H0BC6, \H0BD7>>, <<\H0BCC>>)
        t8  == When(n.opt["remove_nuktas"],
                    LAMBDA u : Replace(Replace(Replace(u, <<\H0B83, \H0B9C>>, <<\H0B9C>>),
                                               <<\H0B83, \H0B95>>, <<\H0B95>>),
                                       <<\H0B83, \H0BAA>>, <<\H0BAA>>),
                    t7)
        grantha(g0) ==
            LET g1 == Replace(g0, <<\H0BB6, \H0BCD, \H0BB0, \H0BC0>>,
                              <<\H0BA4, \H0BBF, \H0BB0, \H0BC1>>)
                g2 == ReplaceChar(g1, \H0B9C, \H0B9A)
                g3 == ReplaceChar(g2, \H0BB6, \H0B9A)
                g4 == ReplaceChar(g3, \H0BB7, \H0B9A)
                g5 == ReplaceChar(g4, \H0BB8, \H0B9A)
                g6 == ReplaceChar(g5, \H0BB9, \H0B95)
            IN  Replace(g6, <<\H0B82>>, <<\H0BAE, \H0BCD>>)
    IN  When(n.opt["normalize_grantha"], grantha, t8)

(***************************************************************************)
(* TeluguNormalizer, KannadaNormalizer.                                    *)
(***************************************************************************)
TeluguPost(t1, n) ==
    LET t2 == ReplaceChar(t1, \H0C64, POORNA_VIRAMA)
        t3 == ReplaceChar(t2, \H0C65, DEERGHA_VIRAMA)
        t4 == Replace(t3, <<\H0C46, \H0C56>>, <<\H0C48>>)
    IN  When(n.opt["do_colon_to_visarga"],
             LAMBDA u : ColonToVisarga(u, \H0C00 .. \H0C7F, \H0C03), t4)

KannadaNUKTA == \H0CBC

KannadaPost(t1, n) ==
    LET t2 == IF n.opt["remove_nuktas"] THEN RemoveChar(t1, KannadaNUKTA) ELSE t1
        t3 == ReplaceChar(t2, \H0CE4, POORNA_VIRAMA)
        t4 == ReplaceChar(t3, \H0CE5, DEERGHA_VIRAMA)
        t5 == Replace(t4, <<\H0CBF, \H0CD5>>, <<\H0CC0>>)
        t6 == Replace(t5, <<\H0CC6, \H0CD5>>, <<\H0CC7>>)
        t7 == Replace(t6, <<\H0CC6, \H0CD6>>, <<\H0CC8>>)
        t8 == Replace(t7, <<\H0CC6, \H0CC2>>, <<\H0CCA>>)
        t9 == Replace(t8, <<\H0CCA, \H0CD5>>, <<\H0CCB>>)
    IN  When(n.opt["do_colon_to_visarga"],
             LAMBDA u : ColonToVisarga(u, \H0C80 .. \H0CFF, \H0C83), t9)

(***************************************************************************)
(* MalayalamNormalizer.                                                    *)
(***************************************************************************)
\* CHILLU_CHAR_MAP, in insertion order: <<chillu, consonant>>
CHILLU_CHAR_MAP ==
    << <<\H0D7A, \H0D23>>, <<\H0D7B, \H0D28>>, <<\H0D7C, \H0D30>>,
       <<\H0D7D, \H0D32>>, <<\H0D7E, \H0D33>>, <<\H0D7F, \H0D15>>,
       <<\H0D54, \H0D2E>>, <<\H0D55, \H0D2F>>, <<\H0D56, \H0D34>> >>

MalayalamVIRAMA == \H0D4D
MalayalamBlock == \H0D00 .. \H0D7F
MalayalamConsonants == \H0D15 .. \H0D3A

RECURSIVE CanonicalizeFrom(_, _)
CanonicalizeFrom(t, k) ==
    IF k > Len(CHILLU_CHAR_MAP) THEN t
    ELSE CanonicalizeFrom(
             Replace(t, <<CHILLU_CHAR_MAP[k][1]>>, <<CHILLU_CHAR_MAP[k][2], MalayalamVIRAMA>>),
             k + 1)

_canonicalize_chillus(t) == CanonicalizeFrom(t, 1)

RECURSIVE IntermediateFrom(_, _)
IntermediateFrom(t, k) ==
    IF k > Len(CHILLU_CHAR_MAP) THEN t
    ELSE IntermediateFrom(
             Sub(t, << {CHILLU_CHAR_MAP[k][2]}, {MalayalamVIRAMA}, MalayalamBlock >>,
                 << CHILLU_CHAR_MAP[k][1], -3 >>),
             k + 1)

_intermediate_virama_to_chillus(t) == IntermediateFrom(t, 1)

RECURSIVE AllViramaFrom(_, _)
AllViramaFrom(t, k) ==
    IF k > Len(CHILLU_CHAR_MAP) THEN t
    ELSE AllViramaFrom(
             Replace(t, <<CHILLU_CHAR_MAP[k][2], MalayalamVIRAMA>>, <<CHILLU_CHAR_MAP[k][1]>>),
             k + 1)

_all_virama_to_chillus(t) == AllViramaFrom(t, 1)

_final_virama_to_half_u_explicit(t) ==
    SubOrEnd(t, << MalayalamConsonants, {MalayalamVIRAMA}, AllChars \ MalayalamBlock >>,
             << -1, \H0D41, MalayalamVIRAMA, -3 >>)

_final_virama_to_u(t0) ==
    LET t1 == Sub(t0, << MalayalamConsonants, {\H0D41}, {MalayalamVIRAMA} >>, << -1, \H0D41 >>)
    IN  SubOrEnd(t1, << MalayalamConsonants, {MalayalamVIRAMA}, AllChars \ MalayalamBlock >>,
                 << -1, \H0D41, -3 >>)

_correct_geminated_T(t) ==
    Replace(t, <<\H0D31, \H0D4D, \H0D31>>, <<\H0D1F, \H0D4D, \H0D1F>>)

\* old chillu encoding consonant + virama + ZWJ -> atomic chillu
RECURSIVE OldChilluFrom(_, _)
OldChilluFrom(t, k) ==
    IF k > Len(CHILLU_CHAR_MAP) THEN t
    ELSE OldChilluFrom(
             Replace(t, <<CHILLU_CHAR_MAP[k][2], MalayalamVIRAMA, ZERO_WIDTH_JOINER>>,
                     <<CHILLU_CHAR_MAP[k][1]>>),
             k + 1)

\* the statements of MalayalamNormalizer.normalize before the call of the
\* super class
MalayalamPre(t0) == ReplaceChar(OldChilluFrom(t0, 1), \H0D4E, \H0D7C)

\* A faulty ordering in which the chillus are normalized before the final
\* viramas are marked as half-u: C22_HalfUBeforeChillus must fail for it.
MalayalamPostChillusFirst(t0, n) ==
    LET t1  == ReplaceChar(t0, \H0D3B, MalayalamVIRAMA)
        t2  == ReplaceChar(t1, \H0D3C, MalayalamVIRAMA)
        chillus(u) ==
            IF n.opt["do_canonicalize_chillus"] THEN _canonicalize_chillus(u)
            ELSE IF n.opt["do_convert_viramas_to_chillus"]
                 THEN _intermediate_virama_to_chillus(u)
            ELSE IF n.opt["do_convert_all_viramas_to_chillus"]
                 THEN _all_virama_to_chillus(u)
            ELSE u
        t3  == chillus(t2)
        t4  == When(n.opt["do_explicit_half_u"], LAMBDA u : _final_virama_to_half_u_explicit(u), t3)
        t5  == When(n.opt["do_half_u_to_u"], LAMBDA u : _final_virama_to_u(u), t4)
        t6  == ReplaceChar(t5, \H0D64, POORNA_VIRAMA)
        t7  == ReplaceChar(t6, \H0D65, DEERGHA_VIRAMA)
        t8  == Replace(t7, <<\H0D46, \H0D3E>>, <<\H0D4A>>)
        t9  == Replace(t8, <<\H0D47, \H0D3E>>, <<\H0D4B>>)
        t10 == Replace(t9, <<\H0D46, \H0D57>>, <<\H0D4C>>)
        t11 == ReplaceChar(t10, \H0D57, \H0D4C)
        t12 == Replace(t11, <<\H0D3A>>, <<\H0D31, \H0D4D, \H0D31>>)
        t13 == When(n.opt["do_correct_geminated_T"], LAMBDA u : _correct_geminated_T(u), t12)
    IN  When(n.opt["do_colon_to_visarga"],
             LAMBDA u : ColonToVisarga(u, MalayalamBlock, \H0D03), t13)

\* the statements after the call of the super class
MalayalamPost(t0, n) ==
    LET t1  == ReplaceChar(t0, \H0D3B, MalayalamVIRAMA)
        t2  == ReplaceChar(t1, \H0D3C, MalayalamVIRAMA)
        t3  == When(n.opt["do_explicit_half_u"], LAMBDA u : _final_virama_to_half_u_explicit(u), t2)
        t4  == When(n.opt["do_half_u_to_u"], LAMBDA u : _final_virama_to_u(u), t3)
        chillus(u) ==
            IF n.opt["do_canonicalize_chillus"] THEN _canonicalize_chillus(u)
            ELSE IF n.opt["do_convert_viramas_to_chillus"]
                 THEN _intermediate_virama_to_chillus(u)
            ELSE IF n.opt["do_convert_all_viramas_to_chillus"]
                 THEN _all_virama_to_chillus(u)
            ELSE u
        t5  == chillus(t4)
        t6  == ReplaceChar(t5, \H0D64, POORNA_VIRAMA)
        t7  == ReplaceChar(t6, \H0D65, DEERGHA_VIRAMA)
        t8  == Replace(t7, <<\H0D46, \H0D3E>>, <<\H0D4A>>)
        t9  == Replace(t8, <<\H0D47, \H0D3E>>, <<\H0D4B>>)
        t10 == Replace(t9, <<\H0D46, \H0D57>>, <<\H0D4C>>)
        t11 == ReplaceChar(t10, \H0D57, \H0D4C)
        t12 == Replace(t11, <<\H0D3A>>, <<\H0D31, \H0D4D, \H0D31>>)
        t13 == When(n.opt["do_correct_geminated_T"], LAMBDA u : _correct_geminated_T(u), t12)
    IN  When(n.opt["do_colon_to_visarga"],
             LAMBDA u : ColonToVisarga(u, MalayalamBlock, \H0D03), t13)

(***************************************************************************)
(* SinhalaNormalizer.                                                      *)
(***************************************************************************)
MISRA_TO_SUDDA_CONSONANTS_MAP ==
    { <<\H0D9B, <<\H0D9A>>>>, <<\H0D9D, <<\H0D9C>>>>, <<\H0DA1, <<\H0DA0>>>>,
      <<\H0DA3, <<\H0DA2>>>>, <<\H0DA8, <<\H0DA7>>>>, <<\H0DAA, <<\H0DA9>>>>,
      <<\H0DAE, <<\H0DAD>>>>, <<\H0DB0, <<\H0DAF>>>>, <<\H0DB5, <<\H0DB4>>>>,
      <<\H0DB7, <<\H0DB6>>>>, <<\H0DC1, <<\H0DC3>>>>, <<\H0DC2, <<\H0DC3>>>>,
      <<\H0D9E, <<\H0DAB>>>>, <<\H0DA4, <<\H0DAB>>>>, <<\H0DB1, <<\H0DAB>>>>,
      <<\H0DC6, <<\H0DB4>>>> }

MISRA_TO_SUDDA_VOWELS_MAP ==
    { <<\H0D93, <<\H0D85, \H0DBA, \H0DD2>>>>, <<\H0D96, <<\H0D85, \H0DC0, \H0DD4>>>>,
      <<\H0D8D, <<\H0DBB, \H0DD4>>>>, <<\H0D8E, <<\H0DBB, \H0DD6>>>>,
      <<\H0D8F, <<\H0DBD, \H0DD2>>>>, <<\H0D90, <<\H0DBD, \H0DD3>>>>,
      <<\H0DDB, <<\H0DBA, \H0DD2>>>>, <<\H0DDE, <<\H0DC0, \H0DD4>>>>,
      <<\H0DD8, <<\H0DCA, \H0DBB, \H0DD4>>>>, <<\H0DF2, <<\H0DCA, \H0DBB, \H0DD6>>>>,
      <<\H0DDF, <<\H0DCA, \H0DBD, \H0DD2>>>>, <<\H0DF3, <<\H0DCA, \H0DBD, \H0DD3>>>> }

\* text.translate(str.maketrans(table))
RECURSIVE TranslateFrom(_, _, _)
TranslateFrom(t, table, i) ==
    IF i > Len(t) THEN <<>>
    ELSE (IF \E e \in table : e[1] = t[i]
          THEN (CHOOSE e \in table : e[1] = t[i])[2]
          ELSE <<t[i]>>) \o TranslateFrom(t, table, i + 1)

Translate(t, table) == TranslateFrom(t, table, 1)

SinhalaPost(t1, n) ==
    LET t2  == Replace(t1, <<\H0D85, \H0DCF>>, <<\H0D86>>)
        t3  == Replace(t2, <<\H0D85, \H0DD0>>, <<\H0D87>>)
        t4  == Replace(t3, <<\H0D85, \H0DD1>>, <<\H0D88>>)
        t5  == Replace(t4, <<\H0D8B, \H0DDF>>, <<\H0D8C>>)
        t6  == Replace(t5, <<\H0D8D, \H0DD8>>, <<\H0D8E>>)
        t7  == Replace(t6, <<\H0D8F, \H0DDF>>, <<\H0D90>>)
        t8  == Replace(t7, <<\H0D91, \H0DCA>>, <<\H0D92>>)
        t9  == Replace(t8, <<\H0D92, \H0DCA>>, <<\H0D92>>)
        t10 == Replace(t9, <<\H0D91, \H0DD9>>, <<\H0D93>>)
        t11 == Replace(t10, <<\H0D94, \H0DDF>>, <<\H0D96>>)
        t12 == Replace(t11, <<\H0DD9, \H0DD9>>, <<\H0DDB>>)
        t13 == Replace(t12, <<\H0DD8, \H0DD8>>, <<\H0DF2>>)
        t14 == When(n.opt["misra_consonants_to_suddha"],
                    LAMBDA u : Translate(u, MISRA_TO_SUDDA_CONSONANTS_MAP), t13)
        t15 == When(n.opt["misra_vowels_to_suddha"],
                    LAMBDA u : Translate(u, MISRA_TO_SUDDA_VOWELS_MAP), t14)
    IN  When(n.opt["do_colon_to_visarga"],
             LAMBDA u : ColonToVisarga(u, \H0D80 .. \H0DFF, \H0D83), t15)

(***************************************************************************)
(* Constructors.  A normalizer object is the record                        *)
(*   [cls, lang, nasals_mode, opt, has_sandhi_cache, sandhi_cache]         *)
(* where opt maps the name of each boolean attribute to its value.         *)
(***************************************************************************)
NativeClasses ==
    {"BaseNormalizer", "DevanagariNormalizer", "KashmiriDevanagariNormalizer",
     "SanskritNormalizer", "GurmukhiNormalizer", "GujaratiNormalizer",
     "OriyaNormalizer", "BengaliNormalizer", "TamilNormalizer", "TeluguNormalizer",
     "KannadaNormalizer", "MalayalamNormalizer", "SinhalaNormalizer"}

AdapterParams == {"remove_diacritics", "do_normalize_numerals", "convert_numerals_to_native"}

\* the keyword parameters of each class's __init__ besides lang
ExtraParams(cls) ==
    CASE cls = "KashmiriDevanagariNormalizer" ->
             {"do_convert_1995_to_2002_orthography",
              "do_convert_vowels_with_apostrophe_to_short",
              "do_convert_2002_to_2009_orthography"}
      [] cls = "SanskritNormalizer" -> {"do_drop_accent", "do_split_sandhi", "do_cache_sandhi"}
      [] cls = "GurmukhiNormalizer" ->
             {"do_canonicalize_addak", "do_canonicalize_tippi", "do_replace_vowel_bases"}
      [] cls = "OriyaNormalizer" -> {"do_remap_wa"}
      [] cls = "BengaliNormalizer" -> {"do_remap_assamese_chars"}
      [] cls = "TamilNormalizer" -> {"normalize_grantha"}
      [] cls = "MalayalamNormalizer" ->
             {"do_explicit_half_u", "do_canonicalize_chillus", "do_half_u_to_u",
              "do_correct_geminated_T", "do_convert_viramas_to_chillus",
              "do_convert_all_viramas_to_chillus"}
      [] cls = "SinhalaNormalizer" -> {"misra_consonants_to_suddha", "misra_vowels_to_suddha"}
      [] OTHER -> {}

\* EnglishNormalizer.__init__(lang, lowercase, ascii_only, fix_unicode, strip_lines, **kwargs)
EnglishParams == {"lowercase", "ascii_only", "fix_unicode", "strip_lines"}

Params(cls) ==
    IF cls \in NativeClasses THEN BaseParams \cup ExtraParams(cls)
    ELSE IF cls = "EnglishNormalizer" THEN EnglishParams
    ELSE AdapterParams

\* the parameters whose default is True
DefaultTrue(cls) ==
    CASE cls = "KashmiriDevanagariNormalizer" ->
             {"do_convert_1995_to_2002_orthography", "do_convert_2002_to_2009_orthography"}
      [] cls = "SanskritNormalizer" ->
             {"convert_numerals_to_native", "do_colon_to_visarga", "do_drop_accent",
              "do_cache_sandhi"}
      [] cls = "EnglishNormalizer" -> {"ascii_only"}
      [] cls \notin NativeClasses \cup {"EnglishNormalizer"} -> {"remove_diacritics"}
      [] OTHER -> {}

NoNormalizer ==
    [cls |-> "None", lang |-> "", nasals_mode |-> "", opt |-> [k \in {} |-> FALSE],
     has_sandhi_cache |-> FALSE, sandhi_cache |-> {}]

\* The object the class's __init__ leaves behind, given keyword arguments kw
\* that the signature accepts.
NewObject(cls, lang, kw) ==
    LET \* EnglishNormalizer keeps the keywords its signature does not name
        \* in self.kwargs
        kept == IF cls = "EnglishNormalizer" THEN DOMAIN kw ELSE {}
        opt == [k \in (Params(cls) \cup kept) \ {"nasals_mode"} |->
                   \* UrduShahmukhiNormalizer.__init__: if lang == 'ks' the
                   \* diacritics are kept whatever was asked
                   IF k = "remove_diacritics" /\ lang = "ks" THEN FALSE
                   ELSE IF k \in DOMAIN kw THEN kw[k]
                   ELSE k \in DefaultTrue(cls)]
    IN  [cls |-> cls,
         lang |-> lang,
         nasals_mode |-> IF "nasals_mode" \in DOMAIN kw THEN kw["nasals_mode"]
                         ELSE IF cls \in NativeClasses THEN "do_nothing" ELSE "",
         opt |-> opt,
         \* SanskritNormalizer.__init__ creates self.sandhi_cache only inside
         \* `if self.do_split_sandhi:` and there only `if self.do_cache_sandhi:`
         has_sandhi_cache |-> /\ cls = "SanskritNormalizer"
                              /\ opt["do_split_sandhi"]
                              /\ opt["do_cache_sandhi"],
         sandhi_cache |-> {}]

\* Calling the class: a keyword the signature does not name is a TypeError;
\* BaseNormalizer.__init__ resolves offsets of the language's script profile
\* (_init_normalize_chandras is its first use), which fails for a language
\* without a profile.
Construct(cls, lang, kw) ==
    IF cls # "EnglishNormalizer" /\ ~(DOMAIN kw \subseteq Params(cls))
    THEN [err |-> "TypeError", obj |-> NoNormalizer]
    ELSE IF cls \in NativeClasses /\ ~HasProfile(lang)
    THEN [err |-> "InvalidOffset", obj |-> NoNormalizer]
    ELSE [err |-> "ok", obj |-> NewObject(cls, lang, kw)]

(***************************************************************************)
(* IndicNormalizerFactory.                                                 *)
(***************************************************************************)
\* the if/elif chain of get_normalizer
ClassOf(language) ==
    IF language \in {"hi", "mr", "kK", "ne", "sd_IN"} THEN "DevanagariNormalizer"
    ELSE IF language \in {"sa"} THEN "SanskritNormalizer"
    ELSE IF language \in {"ks_IN"} THEN "KashmiriDevanagariNormalizer"
    ELSE IF language \in {"ur", "pnb", "skr", "ks"} THEN "UrduShahmukhiNormalizer"
    ELSE IF language \in {"sd"} THEN "SindhiNormalizer"
    ELSE IF language \in {"ar"} THEN "ArabicNormalizer"
    ELSE IF language \in {"fa"} THEN "PersianNormalizer"
    ELSE IF language \in {"pa"} THEN "GurmukhiNormalizer"
    ELSE IF language \in {"gu"} THEN "GujaratiNormalizer"
    ELSE IF language \in {"bn"} THEN "BengaliNormalizer"
    ELSE IF language \in {"as"} THEN "BengaliNormalizer"
    ELSE IF language \in {"or"} THEN "OriyaNormalizer"
    ELSE IF language \in {"ml"} THEN "MalayalamNormalizer"
    ELSE IF language \in {"kn"} THEN "KannadaNormalizer"
    ELSE IF language \in {"ta"} THEN "TamilNormalizer"
    ELSE IF language \in {"te"} THEN "TeluguNormalizer"
    ELSE IF language \in {"si"} THEN "SinhalaNormalizer"
    ELSE IF language \in {"en"} THEN "EnglishNormalizer"
    ELSE "BaseNormalizer"

get_normalizer(language, kw) == Construct(ClassOf(language), language, kw)

is_language_supported(language) ==
    language \in {"hi", "mr", "sa", "kK", "ne", "sd_IN", "ks_IN", "pa", "gu", "bn", "as",
                  "or", "ml", "kn", "ta", "te", "si", "ur", "pnb", "sd", "skr", "ks",
                  "ar", "fa", "en"}

(***************************************************************************)
(* normalize() of the native normalizers: the statements before the call   *)
(* of BaseNormalizer.normalize, that call, the statements after it.        *)
(***************************************************************************)
\* A faulty ordering in which DevanagariNormalizer merges its vowel signs
\* before the call of the super class: C6_CleanupFirst must fail for it.
SuperArgVowelsFirst(t, n) ==
    CASE n.cls = "GurmukhiNormalizer" -> GurmukhiPre(t, n)
      [] n.cls = "MalayalamNormalizer" -> MalayalamPre(t)
      [] n.cls = "DevanagariNormalizer" -> DevanagariNormalizeVowels(t)
      [] OTHER -> t

\* the text the class's normalize hands to BaseNormalizer.normalize
SuperArg(t, n) ==
    CASE n.cls = "GurmukhiNormalizer" -> GurmukhiPre(t, n)
      [] n.cls = "MalayalamNormalizer" -> MalayalamPre(t)
      [] OTHER -> t

PostSuper(t, n) ==
    CASE n.cls = "BaseNormalizer" -> t
      [] n.cls = "DevanagariNormalizer" -> DevanagariPost(t, n)
      [] n.cls = "KashmiriDevanagariNormalizer" -> KashmiriDevanagariPost(t, n)
      [] n.cls = "SanskritNormalizer" -> SanskritPost(t, n)
      [] n.cls = "GurmukhiNormalizer" -> GurmukhiPost(t, n)
      [] n.cls = "GujaratiNormalizer" -> GujaratiPost(t, n)
      [] n.cls = "OriyaNormalizer" -> OriyaPost(t, n)
      [] n.cls = "BengaliNormalizer" -> BengaliPost(t, n)
      [] n.cls = "TamilNormalizer" -> TamilPost(t, n)
      [] n.cls = "TeluguNormalizer" -> TeluguPost(t, n)
      [] n.cls = "KannadaNormalizer" -> KannadaPost(t, n)
      [] n.cls = "MalayalamNormalizer" -> MalayalamPost(t, n)
      [] n.cls = "SinhalaNormalizer" -> SinhalaPost(t, n)

\* One call normalizer.normalize(t) with the sandhi parser behaving as ps:
\* what is raised, the text returned, and the sandhi cache afterwards.
\* `match not in self.sandhi_cache` is an AttributeError when the constructor
\* did not create the attribute.
Run(n, ps, t) ==
    LET super(a) == BaseNormalize(a, n)
        post(b) == PostSuper(b, n)
        sandhi(c) ==
            IF n.cls = "SanskritNormalizer" /\ n.opt["do_split_sandhi"]
            THEN SplitSandhi(c, n, ps)
            ELSE [raised |-> "none", out |-> c, cache |-> n.sandhi_cache]
    IN  Then(Then(Then(SuperArg(t, n), super), post), sandhi)

\* normalize(t) as a function of the text alone (parser finding no split)
Normalize(n, t) == Run(n, "none", t).out

(***************************************************************************)
(* The adapters: normalizers that delegate to a third-party library.       *)
(***************************************************************************)
AdapterClasses ==
    {"UrduShahmukhiNormalizer", "SindhiNormalizer", "ArabicNormalizer",
     "PersianNormalizer", "EnglishNormalizer"}

\* What a call into a third-party library (urduhack, pyarabic, hazm, parsivar,
\* cleantext) does is not decided by this repository: `lb` is the behaviour
\* the library shows in one normalize call, "keep" (it returns its argument)
\* or "strip" (it removes the Arabic diacritics U+064B-U+0652).
LibraryBehaviours == {"keep", "strip"}

ArabicDiacritics == \H064B .. \H0652

Library(lb, t) ==
    IF lb = "strip" THEN SelectSeq(t, LAMBDA c : c \notin ArabicDiacritics) ELSE t

\* self.arabic_normalizer
arabic_normalizer ==
    { <<\H002C, <<\H060C>>>>, <<\H003F, <<\H061F>>>>, <<\H061B, <<\H003B>>>>,
      <<\H066A, <<\H0025>>>>, <<\H066B, <<\H002E>>>>, <<\H066C, <<\H002C>>>>,
      <<\H060D, <<\H002F>>>>, <<\H08C7, <<\H0644, \H0615>>>>,
      <<\HFDF2, <<\H0627, \H0644, \H0644, \H06C1>>>> }

\* EAST_ARABIC_NUMERALS[0]
EAST_ARABIC_ZERO == \H06F0

\* text.translate(self.numerals_normalizer)
numerals_normalizer(t) ==
    [i \in 1..Len(t) |->
        IF t[i] >= EAST_ARABIC_ZERO /\ t[i] <= EAST_ARABIC_ZERO + 9
        THEN DIGIT_ZERO + (t[i] - EAST_ARABIC_ZERO) ELSE t[i]]

\* text.translate(self.numerals_to_persian)
numerals_to_persian(t) ==
    [i \in 1..Len(t) |->
        IF t[i] >= DIGIT_ZERO /\ t[i] <= DIGIT_ZERO + 9
        THEN EAST_ARABIC_ZERO + (t[i] - DIGIT_ZERO) ELSE t[i]]

UrduShahmukhiNormalize(n, lb, t0) ==
    LET punctuations(t) == _normalize_punctuations(t)
        diacritics(t) == IF n.opt["remove_diacritics"] THEN Library(lb, t) ELSE t
        library(t) == Library(lb, t)
        arabic(t) == Translate(t, arabic_normalizer)
        numerals(t) ==
            IF n.opt["do_normalize_numerals"] THEN numerals_normalizer(t)
            ELSE IF n.opt["convert_numerals_to_native"] THEN numerals_to_persian(t)
            ELSE t
    IN  Then(Then(Then(Then(Then(Then(Then(punctuations(t0), diacritics), library),
                                 arabic), numerals), library), library), library)

urdu_to_sindhi ==
    { <<\H06CC, <<\H064A>>>>, <<\H06D2, <<\H064A>>>>, <<\H06C1, <<\H0647>>>>,
      <<\H0679, <<\H067D>>>>, <<\H0688, <<\H068A>>>>, <<\H0691, <<\H0699>>>>,
      <<\H0759, <<\H068F>>>> }

\* the characters \w matches among ASCII and the Arabic block
WordChars ==
    (\H30 .. \H39) \cup (\H41 .. \H5A) \cup (\H61 .. \H7A) \cup {\H5F}
        \cup (\H0620 .. \H064A) \cup (\H0660 .. \H0669) \cup (\H066E .. \H066F)
        \cup (\H0671 .. \H06D3) \cup {\H06D5} \cup (\H06E5 .. \H06E6)
        \cup (\H06EE .. \H06FC) \cup {\H06FF}

\* re.sub(r"ھ\B", "ه", text): the do-chashmi he is a word
\* character, so \B after it means that a word character follows
DoChashmiBeforeWordChar(t) ==
    [i \in 1..Len(t) |->
        IF t[i] = \H06BE /\ i < Len(t) /\ t[i + 1] \in WordChars THEN \H0647 ELSE t[i]]

SindhiNormalize(n, lb, t0) ==
    LET intermediate(t) == DoChashmiBeforeWordChar(t)
        final(t) == Sub(t, << AllChars \ {\H0699, \H062C, \H06AF}, {\H06BE} >>,
                        << -1, \H0647 >>)
        sindhi(t) == Translate(t, urdu_to_sindhi)
    IN  Then(Then(Then(UrduShahmukhiNormalize(n, lb, t0), intermediate), final), sindhi)

ArabicNormalize(n, lb, t0) ==
    LET diacritics(t) == IF n.opt["remove_diacritics"] THEN Library(lb, t) ELSE t
        library(t) == Library(lb, t)
        numerals(t) ==
            IF n.opt["do_normalize_numerals"] \/ n.opt["convert_numerals_to_native"]
            THEN Library(lb, t) ELSE t
    IN  Then(Then(Then(Then(_normalize_punctuations(t0), diacritics), library), library),
             numerals)

PersianNormalize(n, lb, t0) ==
    LET library(t) == Library(lb, t)
    IN  Then(Then(_normalize_punctuations(t0), library), library)

\* the characters \s matches
PyWhitespace ==
    (\H09 .. \H0D) \cup (\H1C .. \H20) \cup {\H85, \HA0, \H1680} \cup (\H2000 .. \H200A)
        \cup {\H2028, \H2029, \H202F, \H205F, \H3000}

\* re.sub(r'\s([?.!"](?:\s|$))', r'\1', text)
SpaceBeforePunctuation(t) ==
    SubOrEnd(t, << PyWhitespace, {\H3F, \H2E, \H21, \H22}, PyWhitespace >>, << -2, -3 >>)

\* re.sub('([0-9a-zA-Z])', lambda x: x.groups()[0].upper(), text, 1)
capitalize(t) ==
    LET hits == { i \in 1..Len(t) :
                    t[i] \in (\H30 .. \H39) \cup (\H41 .. \H5A) \cup (\H61 .. \H7A) }
    IN  [i \in 1..Len(t) |->
            IF i \in hits /\ (\A j \in hits : i <= j) /\ t[i] >= \H61
            THEN t[i] - 32 ELSE t[i]]

EnglishPrepare(t) == capitalize(SpaceBeforePunctuation(t))

EnglishNormalize(n, lb, t0) ==
    LET library(t) == Library(lb, t)
    IN  Then(EnglishPrepare(t0), library)

\* the text the adapter's normalize hands to the first call it makes into
\* its library
Handed(n, t) ==
    IF n.cls = "EnglishNormalizer" THEN EnglishPrepare(t) ELSE _normalize_punctuations(t)

\* One call normalizer.normalize(t) of an adapter, its library behaving as lb
AdapterRun(n, lb, t) ==
    CASE n.cls = "UrduShahmukhiNormalizer" -> UrduShahmukhiNormalize(n, lb, t)
      [] n.cls = "SindhiNormalizer" -> SindhiNormalize(n, lb, t)
      [] n.cls = "ArabicNormalizer" -> ArabicNormalize(n, lb, t)
      [] n.cls = "PersianNormalizer" -> PersianNormalize(n, lb, t)
      [] n.cls = "EnglishNormalizer" -> EnglishNormalize(n, lb, t)

(***************************************************************************)
(* The state machine: the factory builds one normalizer, the caller        *)
(* normalizes one text after another with it.                              *)
(***************************************************************************)
NoResult == [raised |-> "none", out |-> <<>>]

\* no script is running
NoProcess ==
    [argv |-> <<>>, ifile |-> <<>>, ofile |-> <<>>, opened |-> FALSE, at |-> "none",
     next |-> 1, status |-> 0]

Init ==
    /\ normalizer = NoNormalizer
    /\ built = NoNormalizer
    /\ outcome = "none"
    /\ requested = ""
    /\ pc = "idle"
    /\ text = <<>>
    /\ pre = <<>>
    /\ result = NoResult
    /\ process = NoProcess

\* normalizer = factory.get_normalizer(lang, **kw)
GetNormalizer(lang, kw) ==
    /\ outcome = "none"
    /\ \E r \in {get_normalizer(lang, kw)} :
           /\ normalizer' = r.obj
           /\ built' = r.obj
           /\ outcome' = r.err
    /\ requested' = lang
    /\ UNCHANGED <<pc, text, pre, result>>
    /\ UNCHANGED process

\* normalizer.normalize(t)
NormalizeCall(t, ps) ==
    /\ outcome = "ok"
    /\ pc = "idle"
    /\ \E r \in {Run(normalizer, ps, t)} :
           /\ result' = [raised |-> r.raised, out |-> r.out]
           /\ normalizer' = [normalizer EXCEPT !.sandhi_cache = r.cache]
    /\ text' = t
    /\ pre' = SuperArg(t, normalizer)
    /\ pc' = "returned"
    /\ UNCHANGED <<outcome, requested, built>>
    /\ UNCHANGED process

\* normalizer.normalize(t) of an adapter; `pre` is the text handed to the library
AdapterNormalizeCall(t, lb) ==
    /\ outcome = "ok"
    /\ pc = "idle"
    /\ normalizer.cls \in AdapterClasses
    /\ result' = [raised |-> "none", out |-> AdapterRun(normalizer, lb, t)]
    /\ text' = t
    /\ pre' = Handed(normalizer, t)
    /\ pc' = "returned"
    /\ UNCHANGED <<normalizer, outcome, requested, built>>
    /\ UNCHANGED process

\* the caller takes the result (or handles the exception); the object stays
Consume ==
    /\ pc = "returned"
    /\ pc' = "idle"
    /\ text' = <<>>
    /\ pre' = <<>>
    /\ result' = NoResult
    /\ UNCHANGED <<normalizer, outcome, requested, built>>
    /\ UNCHANGED process

(***************************************************************************)
(* The module run as a script (`if __name__ == '__main__'`).  argv[1] is   *)
(* the script's name (sys.argv[0]), so sys.argv[k] is argv[k + 1].         *)
(***************************************************************************)
\* bool(s) of a string
PyBool(s) == s # ""

\* A faulty exit status, non-zero only for the explicit sys.exit(1) and zero
\* when an exception ends the script: C18_NonZeroExit must fail for it.
ExitCodeOfSysExitOnly(how) == IF how = "sys.exit(1)" THEN 1 ELSE 0

\* the exit status of the interpreter: `how` is "end" when the script ran to
\* its last statement, "sys.exit(1)" for that call, else the name of the
\* exception that was not caught
ExitCode(how) == IF how = "end" THEN 0 ELSE 1

\* the keyword arguments the script passes to get_normalizer
ScriptKwargs(argv) ==
    [remove_nuktas |-> IF Len(argv) >= 5 THEN PyBool(argv[5]) ELSE FALSE,
     nasals_mode |-> IF Len(argv) >= 6 THEN argv[6] ELSE "do_nothing"]

Exit(how) ==
    process' = [process EXCEPT !.at = "exited", !.status = ExitCode(how)]

\* if len(sys.argv)<4: print usage; sys.exit(1)
ScriptUsage ==
    /\ process.at = "start"
    /\ Len(process.argv) < 4
    /\ Exit("sys.exit(1)")
    /\ UNCHANGED <<normalizer, outcome, pc, text, pre, result, built, requested>>

\* normalizer=factory.get_normalizer(language,remove_nuktas=...,nasals_mode=...)
ScriptGetNormalizer ==
    /\ process.at = "start"
    /\ Len(process.argv) >= 4
    /\ \E r \in {get_normalizer(process.argv[4], ScriptKwargs(process.argv))} :
           /\ normalizer' = r.obj
           /\ built' = r.obj
           /\ outcome' = r.err
           /\ IF r.err = "ok"
              THEN process' = [process EXCEPT !.at = "created"]
              ELSE Exit(r.err)
    /\ requested' = process.argv[4]
    /\ UNCHANGED <<pc, text, pre, result>>

\* the two codecs.open calls; mode 'w' empties the output file
ScriptOpen ==
    /\ process.at = "created"
    /\ process' = [process EXCEPT !.at = "opened", !.opened = TRUE, !.ofile = <<>>]
    /\ UNCHANGED <<normalizer, outcome, pc, text, pre, result, built, requested>>

\* one round of `for line in ifile.readlines()`
ScriptLine ==
    /\ process.at = "opened"
    /\ process.next <= Len(process.ifile)
    /\ \E r \in {Run(normalizer, "none", process.ifile[process.next])} :
           /\ normalizer' = [normalizer EXCEPT !.sandhi_cache = r.cache]
           /\ IF r.raised = "none"
              THEN process' = [process EXCEPT !.ofile = Append(@, r.out), !.next = @ + 1]
              ELSE Exit(r.raised)
    /\ UNCHANGED <<outcome, pc, text, pre, result, built, requested>>

\* the loop is over: the files are closed and the script ends
ScriptEnd ==
    /\ process.at = "opened"
    /\ process.next > Len(process.ifile)
    /\ Exit("end")
    /\ UNCHANGED <<normalizer, outcome, pc, text, pre, result, built, requested>>

(***************************************************************************)
(* Spec: every native normalizer class the factory builds, with the        *)
(* default options and with the option combinations the claims name, on    *)
(* texts that mix the characters of the common cleanup with letters of     *)
(* the language's script.                                                  *)
(***************************************************************************)
NoKwargs == [k \in {} |-> FALSE]

MainLanguages ==
    {"hi", "sa", "ks_IN", "pa", "gu", "bn", "as", "or", "ml", "kn", "ta", "te", "si", "xx"}

MainKwargs ==
    { NoKwargs,
      [do_normalize_numerals |-> TRUE, convert_numerals_to_native |-> TRUE],
      [do_split_sandhi |-> TRUE],
      [do_split_sandhi |-> TRUE, do_cache_sandhi |-> FALSE] }

\* letters of the language's script that its own rules combine
ScriptSample(lang) ==
    CASE lang = "hi" -> {\H093E, \H0945}
      [] lang = "sa" -> {\H0915}
      [] lang = "pa" -> {\H0A05, \H0A3E}
      [] lang = "ml" -> {\H0D28, \H0D4D}
      [] OTHER -> {offset_to_char(\H15, lang), offset_to_char(HALANTA_OFFSET, lang)}

MainAlphabet(lang) ==
    {ZERO_WIDTH_NON_JOINER, ZERO_WIDTH_JOINER, BYTE_ORDER_MARK, BYTE_ORDER_MARK_2}
        \cup ScriptSample(lang)

MainTexts(lang) == TextsOver(MainAlphabet(lang), MaxLen)

Next ==
    \/ \E lang \in MainLanguages, kw \in MainKwargs : GetNormalizer(lang, kw)
    \/ /\ outcome = "ok"
       /\ \E t \in MainTexts(normalizer.lang), ps \in ParserBehaviours : NormalizeCall(t, ps)
    \/ Consume

Spec == Init /\ [][Next]_vars

(***************************************************************************)
(* Properties of the factory and of normalize, checked under Spec.         *)
(***************************************************************************)
Returned == pc = "returned"
ReturnedText == pc = "returned" /\ result.raised = "none"

\* C1: normalize is idempotent for every native normalizer and every option
\* combination: normalizing the text a call returned gives that text again.
C1_Idempotent ==
    ReturnedText => Normalize(normalizer, result.out) = result.out

\* C2: a request for a language code outside the supported set ends in the
\* outcome UnsupportedLanguage and constructs no normalizer.
C2_UnsupportedLanguage ==
    (outcome # "none" /\ ~is_language_supported(requested))
        => (outcome = "UnsupportedLanguage" /\ normalizer = NoNormalizer)

\* C3: no normalizer exists in which both numeral directions are set: the
\* constructor rejects do_normalize_numerals together with
\* convert_numerals_to_native.
C3_NumeralConflictRejected ==
    outcome = "ok"
        => ~(normalizer.opt["do_normalize_numerals"]
             /\ normalizer.opt["convert_numerals_to_native"])

\* C4: normalize never raises, for every normalizer the factory constructs and
\* every text.
C4_NeverRaises == Returned => result.raised = "none"

\* C5: normalize has no side effect on the normalizer: every field keeps the
\* value it had when the construction returned.
C5_NoSideEffect == outcome = "ok" => normalizer = built

CleanupNotFirst == {"GurmukhiNormalizer", "MalayalamNormalizer"}

CleanupRemoved ==
    {ZERO_WIDTH_NON_JOINER, ZERO_WIDTH_JOINER, BYTE_ORDER_MARK, BYTE_ORDER_MARK_2}

\* C7: the output of normalize holds no ZWNJ (U+200C), no ZWJ (U+200D) and
\* no byte-order mark U+FEFF or U+FFFE, for every native normalizer, option
\* combination and text.
C7_NoJoinersNoBOM ==
    Returned => \A c \in CleanupRemoved : ~Contains(result.out, c)

\* a call that returned a non-empty text for an input holding all four
C7_Witness ==
    /\ ReturnedText
    /\ \E i \in 1..Len(text) : text[i] \in {ZERO_WIDTH_JOINER, ZERO_WIDTH_NON_JOINER}
    /\ \E i \in 1..Len(text) : text[i] \in {BYTE_ORDER_MARK, BYTE_ORDER_MARK_2}
    /\ Len(result.out) > 0

(***************************************************************************)
(* SpecNasal: _to_anusvaara_strict followed by _to_nasal_consonants on     *)
(* texts made of homorganic nasal + halant + consonant sequences.  Here    *)
(* `requested` is the language of the script, `text` the input x, `pre`    *)
(* the text after _to_anusvaara_strict and `result.out` the text after     *)
(* _to_nasal_consonants.                                                   *)
(***************************************************************************)
MaxTriples == 2

NasalLanguages == {"hi", "pa", "ml"}

\* the sequences nasal halant consonant of the rows of pat_signatures, the
\* consonant being the first or the last of the row's range
HomorganicTriples(lang) ==
    { << offset_to_char(pat_signatures[k][1], lang),
         offset_to_char(HALANTA_OFFSET, lang),
         offset_to_char(pat_signatures[k][j], lang) >> :
        k \in 1..Len(pat_signatures), j \in {2, 3} }

RECURSIVE SequencesOf(_, _)
SequencesOf(S, k) ==
    IF k = 0 THEN {<<>>} ELSE { s \o t : s \in S, t \in SequencesOf(S, k - 1) }

HomorganicTexts(lang) ==
    UNION { SequencesOf(HomorganicTriples(lang), k) : k \in 0..MaxTriples }

NasalInit ==
    /\ normalizer = NoNormalizer
    /\ built = NoNormalizer
    /\ outcome = "none"
    /\ requested \in NasalLanguages
    /\ text \in HomorganicTexts(requested)
    /\ pc = "input"
    /\ pre = <<>>
    /\ result = NoResult
    /\ process = NoProcess

ToAnusvaaraStrict ==
    /\ pc = "input"
    /\ pre' = _to_anusvaara_strict(text, requested)
    /\ pc' = "strict"
    /\ UNCHANGED <<normalizer, built, outcome, requested, text, result>>
    /\ UNCHANGED process

ToNasalConsonants ==
    /\ pc = "strict"
    /\ result' = [raised |-> "none", out |-> _to_nasal_consonants(pre, requested)]
    /\ pc' = "nasal"
    /\ UNCHANGED <<normalizer, built, outcome, requested, text, pre>>
    /\ UNCHANGED process

NextNasal == ToAnusvaaraStrict \/ ToNasalConsonants

SpecNasal == NasalInit /\ [][NextNasal]_vars

SecondDentalNasal(lang) == offset_to_char(pat_signatures[5][1], lang)

NuktaLen == 2

NuktaLanguages == {"hi", "pa", "or", "bn"}

NuktaKwargs ==
    { NoKwargs,
      [decompose_nuktas |-> TRUE],
      [remove_nuktas |-> TRUE],
      [remove_nuktas |-> TRUE, decompose_nuktas |-> TRUE] }

NuktaOf(lang) ==
    CASE lang = "hi" -> DevanagariNUKTA
      [] lang = "pa" -> GurmukhiNUKTA
      [] lang = "or" -> OriyaNUKTA
      [] lang = "bn" -> BengaliNUKTA

NuktaPairsOf(lang) ==
    CASE lang = "hi" -> DevanagariNuktaPairs
      [] lang = "pa" -> GurmukhiNuktaPairs
      [] lang = "or" -> OriyaNuktaPairs
      [] lang = "bn" -> BengaliNuktaPairs

Composites(lang) == { NuktaPairsOf(lang)[k][1] : k \in 1..Len(NuktaPairsOf(lang)) }

\* every composite, every base letter, and the nukta
NuktaAlphabet(lang) ==
    { NuktaPairsOf(lang)[k][j] : k \in 1..Len(NuktaPairsOf(lang)), j \in {1, 2} }
        \cup {NuktaOf(lang)}

\* the first composite, its base letter, and the nukta
NuktaSample(lang) ==
    {NuktaPairsOf(lang)[1][1], NuktaPairsOf(lang)[1][2], NuktaOf(lang)}

NuktaTexts(lang) ==
    TextsOver(NuktaAlphabet(lang), NuktaLen) \cup TextsOver(NuktaSample(lang), MaxLen)

NextNukta ==
    \/ \E lang \in NuktaLanguages, kw \in NuktaKwargs : GetNormalizer(lang, kw)
    \/ /\ outcome = "ok"
       /\ \E t \in NuktaTexts(normalizer.lang) : NormalizeCall(t, "none")
    \/ Consume

SpecNukta == Init /\ [][NextNukta]_vars

\* recompose: normalize with remove_nuktas=False, decompose_nuktas=False
Recompose(lang, t) == Normalize(get_normalizer(lang, NoKwargs).obj, t)

\* decompose: normalize with decompose_nuktas=True
Decompose(lang, t) ==
    Normalize(get_normalizer(lang, [decompose_nuktas |-> TRUE]).obj, t)

RecomposeMode == ~normalizer.opt["remove_nuktas"] /\ ~normalizer.opt["decompose_nuktas"]
DecomposeMode == ~normalizer.opt["remove_nuktas"] /\ normalizer.opt["decompose_nuktas"]

\* C9: on a text built from the script's nukta composites, base letters and
\* the nukta, decompose(recompose(x)) = decompose(x) and
\* recompose(decompose(x)) = recompose(x), and recompose changes nothing in a
\* text that recompose returned.
C9_NuktaRoundTrip ==
    ReturnedText =>
        /\ RecomposeMode =>
              /\ Decompose(requested, result.out) = Decompose(requested, text)
              /\ Recompose(requested, result.out) = result.out
        /\ DecomposeMode =>
              Recompose(requested, result.out) = Recompose(requested, text)

\* a decomposed letter followed by a second nukta, recomposed
C9_Witness ==
    /\ ReturnedText
    /\ RecomposeMode
    /\ Len(text) = 3
    /\ text[2] = NuktaOf(requested)
    /\ text[3] = NuktaOf(requested)
    /\ result.out = <<NuktaPairsOf(requested)[1][1], NuktaOf(requested)>>

\* the letter c with its nukta folded away
BaseLetter(c, lang) ==
    IF c \in Composites(lang)
    THEN (CHOOSE k \in 1..Len(NuktaPairsOf(lang)) : NuktaPairsOf(lang)[k][1] = c)
    ELSE 0

Folded(t, lang) ==
    LET kept == SelectSeq(t, LAMBDA c : c # NuktaOf(lang))
    IN  [i \in 1..Len(kept) |->
            IF kept[i] \in Composites(lang)
            THEN NuktaPairsOf(lang)[BaseLetter(kept[i], lang)][2]
            ELSE kept[i]]

\* C10: with remove_nuktas=True, whatever decompose_nuktas is, the output
\* holds neither the nukta nor a precomposed nukta letter: the nukta is gone
\* and every precomposed letter is replaced by its base letter.
C10_RemoveNuktas ==
    (ReturnedText /\ normalizer.opt["remove_nuktas"]) =>
        /\ ~Contains(result.out, NuktaOf(requested))
        /\ \A c \in Composites(requested) : ~Contains(result.out, c)
        /\ result.out = Folded(text, requested)

\* a text with a precomposed letter and a nukta, normalized with both
\* remove_nuktas and decompose_nuktas set
C10_Witness ==
    /\ ReturnedText
    /\ normalizer.opt["remove_nuktas"]
    /\ normalizer.opt["decompose_nuktas"]
    /\ \E c \in Composites(requested) : Contains(text, c)
    /\ Contains(text, NuktaOf(requested))
    /\ Len(result.out) = 2

(***************************************************************************)
(* SpecColon: the Devanagari, Tamil and Oriya normalizers with and without *)
(* do_colon_to_visarga, on texts of colons, pipes, a Latin letter, a       *)
(* joiner and a letter of the script.                                      *)
(***************************************************************************)
LATIN_SMALL_A == \H0061

ColonLanguages == {"hi", "ta", "or"}

ColonKwargs == { NoKwargs, [do_colon_to_visarga |-> TRUE] }

ColonAlphabet(lang) ==
    {COLON, PIPE, LATIN_SMALL_A, ZERO_WIDTH_JOINER, offset_to_char(\H15, lang)}

ColonTexts(lang) == TextsOver(ColonAlphabet(lang), MaxLen)

NextColon ==
    \/ \E lang \in ColonLanguages, kw \in ColonKwargs : GetNormalizer(lang, kw)
    \/ /\ outcome = "ok"
       /\ \E t \in ColonTexts(normalizer.lang) : NormalizeCall(t, "none")
    \/ Consume

SpecColon == Init /\ [][NextColon]_vars

Count(t, c) == Cardinality({ i \in 1..Len(t) : t[i] = c })

DevanagariBlock == \H0900 .. \H097F
TamilBlock == \H0B80 .. \H0BFF

ReturnedFrom(cls) == ReturnedText /\ normalizer.cls = cls

\* the colons of t that do not immediately follow a character of the block
ColonsNotAfter(t, block) ==
    Cardinality({ i \in 1..Len(t) : t[i] = COLON /\ ~(i > 1 /\ t[i - 1] \in block) })

\* C11 as stated: with do_colon_to_visarga=True a colon of the input becomes
\* the visarga exactly when it immediately follows, in the input, a character
\* of U+0900-U+097F, every other colon stays; with the option off no colon
\* changes.
C11_ColonExactlyAfterScriptChar ==
    ReturnedFrom("DevanagariNormalizer") =>
        Count(result.out, COLON) =
            IF normalizer.opt["do_colon_to_visarga"]
            THEN ColonsNotAfter(text, DevanagariBlock)
            ELSE Count(text, COLON)

\* the text that reaches the colon step: normalize with the option off
BeforeColonStep ==
    Normalize([normalizer EXCEPT !.opt["do_colon_to_visarga"] = FALSE], text)

\* position by position: a colon right after a character of the block becomes
\* the visarga, everything else stays
ColonRule(t, block, visarga) ==
    [i \in 1..Len(t) |->
        IF t[i] = COLON /\ i > 1 /\ t[i - 1] \in block THEN visarga ELSE t[i]]

\* C11 amended: with do_colon_to_visarga=True DevanagariNormalizer.normalize
\* replaces a colon by U+0903 exactly when the colon immediately follows a
\* character of U+0900-U+097F in the text that reaches the colon step (the
\* input after the cleanup, the vowel and nukta steps and the replacement of
\* the pipe by U+0964) and leaves every other character of that text
\* unchanged; with the option off no colon is changed.
C11_ColonAfterScriptChar ==
    ReturnedFrom("DevanagariNormalizer") =>
        IF normalizer.opt["do_colon_to_visarga"]
        THEN result.out = ColonRule(BeforeColonStep, DevanagariBlock, \H0903)
        ELSE Count(result.out, COLON) = Count(text, COLON)

\* a letter followed by two colons and, in one text, a colon after a Latin letter
C11_Witness ==
    /\ ReturnedFrom("DevanagariNormalizer")
    /\ normalizer.opt["do_colon_to_visarga"]
    /\ text = <<\H0915, COLON, COLON>>
    /\ result.out = <<\H0915, \H0903, COLON>>

\* C12: TamilNormalizer with do_colon_to_visarga=True replaces a colon that
\* follows a character of the Tamil script by the visarga: in the output no
\* colon follows a character of U+0B80-U+0BFF.
C12_TamilColonToVisarga ==
    (ReturnedFrom("TamilNormalizer") /\ normalizer.opt["do_colon_to_visarga"]) =>
        \A i \in 2..Len(result.out) :
            ~(result.out[i] = COLON /\ result.out[i - 1] \in TamilBlock)

\* C13: OriyaNormalizer.normalize replaces every pipe character U+007C by the
\* poorna virama U+0964: the output holds no pipe.
C13_OriyaPipeToPoornaVirama ==
    ReturnedFrom("OriyaNormalizer") => ~Contains(result.out, PIPE)

(***************************************************************************)
(* SpecVowelEnding: a Devanagari (Indo-Aryan) and a Tamil (Dravidian)      *)
(* normalizer built with do_normalize_vowel_ending=True, on texts of       *)
(* consonants, a vowel sign, the halant and the three whitespace           *)
(* characters.                                                             *)
(***************************************************************************)
TAB == \H0009

Whitespace == {SPACE, TAB, NEWLINE}

VowelEndingLanguages == {"hi", "ta"}

VowelEndingKwargs == { [do_normalize_vowel_ending |-> TRUE] }

VowelEndingAlphabet(lang) ==
    Whitespace \cup {offset_to_char(\H15, lang), offset_to_char(\H3E, lang),
                     offset_to_char(HALANTA_OFFSET, lang)}

VowelEndingTexts(lang) == TextsOver(VowelEndingAlphabet(lang), MaxLen)

NextVowelEnding ==
    \/ \E lang \in VowelEndingLanguages, kw \in VowelEndingKwargs : GetNormalizer(lang, kw)
    \/ /\ outcome = "ok"
       /\ \E t \in VowelEndingTexts(normalizer.lang) : NormalizeCall(t, "none")
    \/ Consume

SpecVowelEnding == Init /\ [][NextVowelEnding]_vars

\* what is appended to a word that ends in a consonant
EndingOf(lang) ==
    IF lang \in DRAVIDIAN_LANGUAGES THEN offset_to_char(\H3E, lang)
    ELSE offset_to_char(HALANTA_OFFSET, lang)

\* t with the ending inserted after every consonant that is the last
\* character of a word, the words being delimited by the characters of seps
RECURSIVE Augmented(_, _, _, _)
Augmented(t, lang, seps, i) ==
    IF i > Len(t) THEN <<>>
    ELSE IF is_consonant(t[i], lang) /\ (i = Len(t) \/ t[i + 1] \in seps)
         THEN <<t[i], EndingOf(lang)>> \o Augmented(t, lang, seps, i + 1)
         ELSE <<t[i]>> \o Augmented(t, lang, seps, i + 1)

\* C14: with do_normalize_vowel_ending=True every word delimited by space,
\* tab or newline that ends in a consonant gets the halant (Indo-Aryan) or the
\* vowel sign at offset 0x3E (Dravidian) appended, and every other word is
\* unchanged.
C14_VowelEndingEveryWord ==
    (ReturnedText /\ normalizer.opt["do_normalize_vowel_ending"]) =>
        result.out = Augmented(text, normalizer.lang, Whitespace, 1)

(***************************************************************************)
(* SpecAdapter: the adapters the factory builds, on texts of typographic   *)
(* punctuation, ASCII punctuation, a space, a Latin letter and an Arabic   *)
(* letter with a diacritic.                                                *)
(***************************************************************************)
AdapterLanguages == {"ur", "ks", "sd", "ar", "fa", "en"}

AdapterKwargs(lang) ==
    IF lang = "en" THEN {NoKwargs}
    ELSE {NoKwargs, [do_normalize_numerals |-> TRUE]}

AdapterAlphabet ==
    {\H201C, \H2026, APOS, SPACE, \H003F, LATIN_SMALL_A, \H06BE, \H064E}

AdapterTexts == TextsOver(AdapterAlphabet, MaxLen)

NextAdapter ==
    \/ \E lang \in AdapterLanguages : \E kw \in AdapterKwargs(lang) : GetNormalizer(lang, kw)
    \/ \E t \in AdapterTexts, lb \in LibraryBehaviours : AdapterNormalizeCall(t, lb)
    \/ Consume

SpecAdapter == Init /\ [][NextAdapter]_vars

\* the typographic variants the punctuation stage rewrites
TypographicVariants ==
    {\H201E, \H201C, \H201D, \H2013, \H2014, \H00B4, \H2018, \H201A, \H2019, \H2026}

Has(t, chars) == \E i \in 1..Len(t) : t[i] \in chars

\* C15: for every language served by an adapter, the punctuation stage has
\* been applied to the text before it is handed to the third-party
\* normalizer: the handed text holds none of the typographic variants.
C15_PunctuationBeforeLibrary ==
    (Returned /\ normalizer.cls \in AdapterClasses) => ~Has(pre, TypographicVariants)

\* the same for the adapters other than the English one
NonEnglishPunctuationBeforeLibrary ==
    (Returned /\ normalizer.cls \in AdapterClasses \ {"EnglishNormalizer"})
        => pre = _normalize_punctuations(text) /\ ~Has(pre, TypographicVariants)

(***************************************************************************)
(* SpecPunctuation: the punctuation stage on texts of its typographic      *)
(* variants, the ASCII quotes, the byte order mark and a letter.  `text`   *)
(* is the input and `result.out` the text the stage returns.               *)
(***************************************************************************)
PunctuationAlphabet ==
    TypographicVariants \cup {APOS, DQUOTE, BYTE_ORDER_MARK, LATIN_SMALL_A}

PunctuationInit ==
    /\ normalizer = NoNormalizer
    /\ built = NoNormalizer
    /\ outcome = "none"
    /\ requested = "none"
    /\ text \in TextsOver(PunctuationAlphabet, MaxLen)
    /\ pc = "input"
    /\ pre = <<>>
    /\ result = NoResult
    /\ process = NoProcess

NormalizePunctuations ==
    /\ pc = "input"
    /\ result' = [raised |-> "none", out |-> _normalize_punctuations(text)]
    /\ pc' = "punctuated"
    /\ UNCHANGED <<normalizer, built, outcome, requested, text, pre>>
    /\ UNCHANGED process

NextPunctuation == NormalizePunctuations

SpecPunctuation == PunctuationInit /\ [][NextPunctuation]_vars

\* what each character of the table stands for
Plain(c) ==
    CASE c \in {\H201E, \H201C, \H201D} -> <<DQUOTE>>
      [] c = \H2013 -> <<HYPHEN>>
      [] c = \H2014 -> <<SPACE, HYPHEN, SPACE>>
      [] c \in {\H00B4, \H2018, \H201A, \H2019} -> <<APOS>>
      [] c = \H2026 -> <<PERIOD, PERIOD, PERIOD>>
      [] c = BYTE_ORDER_MARK -> <<>>
      [] OTHER -> <<c>>

RECURSIVE PlainText(_)
PlainText(t) == IF t = <<>> THEN <<>> ELSE Plain(Head(t)) \o PlainText(Tail(t))

\* each pair of adjacent apostrophes, from the left, as one double quote
RECURSIVE PairsJoined(_)
PairsJoined(t) ==
    IF Len(t) < 2 THEN t
    ELSE IF t[1] = APOS /\ t[2] = APOS THEN <<DQUOTE>> \o PairsJoined(Tail(Tail(t)))
    ELSE <<t[1]>> \o PairsJoined(Tail(t))

AdjacentApostrophes(t) == \E i \in 1..(Len(t) - 1) : t[i] = APOS /\ t[i + 1] = APOS

\* C16: the text the punctuation stage returns holds none of the typographic
\* variants of its table and no two adjacent ASCII apostrophes; every variant
\* stands as its plain equivalent and every doubled apostrophe as U+0022.
C16_NoTypographicVariant ==
    pc = "punctuated" =>
        /\ ~Has(result.out, TypographicVariants)
        /\ ~AdjacentApostrophes(result.out)
        /\ result.out = PairsJoined(PlainText(text))

\* a curly double quote and an apostrophe doubled by a curly single quote,
\* both returned as U+0022
C16_Witness ==
    /\ pc = "punctuated"
    /\ text = <<\H201C, APOS, \H2019>>
    /\ result.out = <<DQUOTE, DQUOTE>>

(***************************************************************************)
(* SpecVowels: the Devanagari normalizer, keeping or removing nuktas, on   *)
(* texts of the vowel sign AA, second parts of two-part vowel signs, the   *)
(* nukta, a consonant and the zero width joiner.                           *)
(***************************************************************************)
VowelsKwargs == {NoKwargs, [remove_nuktas |-> TRUE]}

VowelsAlphabet == {\H093E, \H0945, \H0948, DevanagariNUKTA, \H0924, ZERO_WIDTH_JOINER}

VowelsTexts == TextsOver(VowelsAlphabet, MaxLen)

NextVowels ==
    \/ \E kw \in VowelsKwargs : GetNormalizer("hi", kw)
    \/ \E t \in VowelsTexts : NormalizeCall(t, "none")
    \/ Consume

SpecVowels == Init /\ [][NextVowels]_vars

\* the single sign of a two-part vowel sign AA + c, or 0 if there is none
SingleSign(c) ==
    CASE c = \H093A -> \H093B
      [] c = \H0945 -> \H0949
      [] c = \H0946 -> \H094A
      [] c = \H0947 -> \H094B
      [] c = \H0948 -> \H094C
      [] OTHER -> 0

HasTwoPartVowel(t) ==
    \E i \in 1..(Len(t) - 1) : t[i] = \H093E /\ SingleSign(t[i + 1]) # 0

\* every two-part vowel sign of t as its single sign
RECURSIVE Merged(_)
Merged(t) ==
    IF Len(t) < 2 THEN t
    ELSE IF t[1] = \H093E /\ SingleSign(t[2]) # 0
         THEN <<SingleSign(t[2])>> \o Merged(Tail(Tail(t)))
         ELSE <<t[1]>> \o Merged(Tail(t))

MaxLines == 2

ScriptLanguages == {"hi", "pa", "ur", "xx"}

\* the argument vectors: every prefix of <infile> <outfile> <language>
\* <replace_nukta> <normalize_nasals>
ScriptArgvs ==
    LET full == { <<"normalize.py", "in.txt", "out.txt", l, r, m>> :
                    l \in ScriptLanguages, r \in {"True", "False"},
                    m \in {"do_nothing", "to_anusvaara_strict"} }
    IN  { SubSeq(a, 1, k) : a \in full, k \in 1..6 }

\* lines as readlines() returns them, each with its line end
ScriptLinesOfFile ==
    { <<\H0958, NEWLINE>>, <<\H0A59, NEWLINE>>, <<\H0928, \H094D, \H0924, NEWLINE>> }

ScriptFiles == UNION { [1..k -> ScriptLinesOfFile] : k \in 0..MaxLines }

ScriptInit ==
    /\ normalizer = NoNormalizer
    /\ built = NoNormalizer
    /\ outcome = "none"
    /\ requested = "none"
    /\ text = <<>>
    /\ pc = "idle"
    /\ pre = <<>>
    /\ result = NoResult
    /\ \E a \in ScriptArgvs, f \in ScriptFiles :
           process = [argv |-> a, ifile |-> f, ofile |-> <<>>, opened |-> FALSE,
                      at |-> "start", next |-> 1, status |-> 0]

NextScript == ScriptUsage \/ ScriptGetNormalizer \/ ScriptOpen \/ ScriptLine \/ ScriptEnd

SpecScript == ScriptInit /\ [][NextScript]_vars

Exited == process.at = "exited"

C18_WitnessUsage ==
    /\ Exited
    /\ Len(process.argv) = 3
    /\ process.status = 1

(***************************************************************************)
(* The sentence splitter (src/indicnlp/tokenize/sentence_tokenize.py).     *)
(* A list of sentences is a sequence of texts.                             *)
(***************************************************************************)
CARRIAGE_RETURN == \H000D

\* the characters each delimiter pattern matches
DELIM_PAT_DANDA == {\H003F, \H0021, \H0964, \H0965}
DELIM_PAT_NO_DANDA == {PERIOD, \H003F, \H0021, \H0964, \H0965}
DELIM_PAT_URDU == {\H06D4, \H061F, \H0021, \H003F}

\* CONTAINS_DANDA.search(text) is not None
CONTAINS_DANDA(t) == Has(t, {\H0964, \H0965})

\* langinfo.is_danda_delim(lang): the languages whose sentence delimiter is
\* the danda
is_danda_delim(lang) == lang \in {"as", "bn", "hi", "ne", "or", "pa", "sa", "sd"}

\* UnicodeIndicTransliterator.transliterate(text, lang, 'hi') for a language
\* written in Devanagari
transliterate(t, lang) == t

en_acr_chars ==
    { <<c>> : c \in \H0041 .. \H005A } \cup
    {
      <<\H004D, \H0072>>, <<\H004D, \H0073>>, <<\H004D, \H0072, \H0073>>,
      <<\H0044, \H0072>>, <<\H004A, \H0072>>, <<\H0048, \H006F, \H006E>>,
      <<\H0050, \H0072, \H006F, \H0066>>, <<\H0043, \H0061, \H0070, \H0074>>,
      <<\H0053, \H0074>>, <<\H004E, \H006F>>, <<\H0052, \H0073>> }

is_en_acronym_abbvr(t) == t \in en_acr_chars

ack_chars ==
    {
      <<\H090F>>, <<\H090E>>, <<\H092C, \H0940>>, <<\H092C, \H093F>>,
      <<\H0938, \H0940>>, <<\H0938, \H093F>>, <<\H0921, \H0940>>, <<\H0921, \H093F>>,
      <<\H0908>>, <<\H0907>>, <<\H090F, \H092B>>, <<\H090E, \H092B>>,
      <<\H091C, \H0940>>, <<\H091C, \H093F>>, <<\H090F, \H091A>>, <<\H090E, \H091A>>,
      <<\H0906, \H0908>>, <<\H0906, \H0907>>, <<\H0910>>, <<\H091C, \H0947>>,
      <<\H091C, \H0946>>, <<\H0915, \H0947>>, <<\H0915, \H0946>>, <<\H090F, \H0932>>,
      <<\H090E, \H0932>>, <<\H090F, \H092E>>, <<\H090E, \H092E>>, <<\H090F, \H0928>>,
      <<\H090E, \H0928>>, <<\H0913>>, <<\H0912>>, <<\H092A, \H0940>>,
      <<\H092A, \H093F>>, <<\H0915, \H094D, \H092F, \H0942>>,
      <<\H0915, \H094D, \H092F, \H0941>>, <<\H0906, \H0930>>, <<\H090F, \H0938>>,
      <<\H090E, \H0938>>, <<\H091F, \H0940>>, <<\H091F, \H093F>>, <<\H092F, \H0942>>,
      <<\H092F, \H0941>>, <<\H0935, \H0940>>, <<\H0935, \H093F>>,
      <<\H0935, \H094D, \H0939, \H0940>>, <<\H0935, \H094D, \H0939, \H093F>>,
      <<\H0921, \H092C, \H094D, \H0932, \H094D, \H092F, \H0942>>,
      <<\H0921, \H092C, \H094D, \H0932, \H094D, \H092F, \H0941>>,
      <<\H090F, \H0915, \H094D, \H0938>>, <<\H090E, \H0915, \H094D, \H0938>>,
      <<\H0935, \H093E, \H092F>>, <<\H091C, \H0947, \H0921>>,
      <<\H095B, \H0947, \H0921>>, <<\H090F, \H092B, \H094D>>,
      <<\H090E, \H092B, \H094D>>, <<\H090F, \H091A, \H094D>>,
      <<\H090E, \H091A, \H094D>>, <<\H090F, \H0932, \H094D>>,
      <<\H090E, \H0932, \H094D>>, <<\H090F, \H092E, \H094D>>,
      <<\H090E, \H092E, \H094D>>, <<\H090F, \H0928, \H094D>>,
      <<\H090E, \H0928, \H094D>>, <<\H0906, \H0930, \H094D>>,
      <<\H090F, \H0938, \H094D>>, <<\H090E, \H0938, \H094D>>,
      <<\H090F, \H0915, \H094D, \H0938, \H094D>>,
      <<\H090E, \H0915, \H094D, \H0938, \H094D>>, <<\H0935, \H093E, \H092F, \H094D>>,
      <<\H091C, \H0947, \H0921, \H094D>>, <<\H095B, \H0947, \H0921, \H094D>>,
      <<\H0904>>, <<\H0905>>, <<\H0906>>, <<\H0909>>, <<\H090A>>, <<\H090B>>,
      <<\H090C>>, <<\H090D>>, <<\H0911>>, <<\H0914>>, <<\H0960>>, <<\H0961>>,
      <<\H0915>>, <<\H0916>>, <<\H0917>>, <<\H0918>>, <<\H0919>>, <<\H091A>>,
      <<\H091B>>, <<\H091C>>, <<\H091D>>, <<\H091E>>, <<\H091F>>, <<\H0920>>,
      <<\H0921>>, <<\H0922>>, <<\H0923>>, <<\H0924>>, <<\H0925>>, <<\H0926>>,
      <<\H0927>>, <<\H0928>>, <<\H0929>>, <<\H092A>>, <<\H092B>>, <<\H092C>>,
      <<\H092D>>, <<\H092E>>, <<\H092F>>, <<\H0930>>, <<\H0931>>, <<\H0932>>,
      <<\H0933>>, <<\H0934>>, <<\H0935>>, <<\H0936>>, <<\H0937>>, <<\H0938>>,
      <<\H0939>>, <<\H0936, \H094D, \H0930, \H0940>>, <<\H0921, \H0949>>,
      <<\H0915, \H0941>>, <<\H091A, \H093F>>, <<\H0938, \H094C>> }

is_acronym_abbvr(t, lang) ==
    IF lang = "en" THEN is_en_acronym_abbvr(t)
    ELSE transliterate(t, lang) \in ack_chars

\* str.strip()
strip(t) ==
    LET keep == { i \in 1..Len(t) : t[i] \notin PyWhitespace }
    IN  IF keep = {} THEN <<>>
        ELSE SubSeq(t, CHOOSE i \in keep : \A j \in keep : i <= j,
                       CHOOSE i \in keep : \A j \in keep : i >= j)

\* str.isnumeric() of a character: the ASCII digits and the digits of the
\* Indic script blocks
isnumeric(c) ==
    \/ c \in \H0030 .. \H0039
    \/ \E base \in {\H0900, \H0980, \H0A00, \H0A80, \H0B00, \H0B80, \H0C00, \H0C80, \H0D00} :
           c \in (base + \H66) .. (base + \H6F)

\* str.split(c)
RECURSIVE SplitAt(_, _)
SplitAt(t, c) ==
    IF ~Contains(t, c) THEN <<t>>
    ELSE LET i == CHOOSE k \in 1..Len(t) : t[k] = c /\ \A j \in 1..(k - 1) : t[j] # c
         IN  <<SubSeq(t, 1, i - 1)>> \o SplitAt(SubSeq(t, i + 1, Len(t)), c)

\* the pattern the call uses: delim_pat is "auto" or the name of a pattern
\* the caller passed
DelimiterPattern(t, lang, delim_pat) ==
    IF delim_pat = "auto"
    THEN IF is_danda_delim(lang)
         THEN IF ~CONTAINS_DANDA(t) THEN DELIM_PAT_NO_DANDA ELSE DELIM_PAT_DANDA
         ELSE IF lang \in {"ur", "pnb", "ks"} THEN DELIM_PAT_URDU ELSE DELIM_PAT_NO_DANDA
    ELSE IF delim_pat = "DELIM_PAT_DANDA" THEN DELIM_PAT_DANDA
    ELSE IF delim_pat = "DELIM_PAT_URDU" THEN DELIM_PAT_URDU
    ELSE DELIM_PAT_NO_DANDA

\* the body of the finditer loop for a chunk s that is kept
AddCandidate(cands, s) ==
    IF Len(s) = 0 THEN cands
    ELSE IF Len(s) = 1
         THEN IF cands = <<>> THEN <<s>>
              ELSE [cands EXCEPT ![Len(cands)] = @ \o s]
         ELSE Append(cands, s)

\* A faulty test that takes no period for a decimal point:
\* C24_NoBoundaryAtDecimalPoint must fail for it.
DecimalPointNever(t, p) == FALSE

\* is the match at p a decimal point
DecimalPoint(t, p) ==
    /\ t[p] = PERIOD
    /\ p > 1 /\ isnumeric(t[p - 1])
    /\ p < Len(t) /\ isnumeric(t[p + 1])

\* A faulty test that counts the double quotes before p also when the quotes
\* of the text do not balance: C25_QuotesAware must fail for it.
InsideQuotesUnbalanced(t, p) ==
    Cardinality({ i \in 1..Len(t) : t[i] = DQUOTE /\ i < p }) % 2 = 1

\* is the match at p inside double quotes (checked when the quotes balance)
InsideQuotes(t, p) ==
    LET double_quotes_indices == { i \in 1..Len(t) : t[i] = DQUOTE }
        check_for_double_quotes ==
            double_quotes_indices # {} /\ Cardinality(double_quotes_indices) % 2 = 0
    IN  /\ check_for_double_quotes
        /\ Cardinality({ i \in double_quotes_indices : i < p }) % 2 = 1

\* the finditer loop from match position p on: st = [begin, cands]
RECURSIVE FindIter(_, _, _, _)
FindIter(t, pat, p, st) ==
    IF p > Len(t) THEN st
    ELSE IF t[p] \notin pat \/ DecimalPoint(t, p) \/ InsideQuotes(t, p)
         THEN FindIter(t, pat, p + 1, st)
    ELSE FindIter(t, pat, p + 1,
                 [begin |-> p + 1,
                  cands |-> AddCandidate(st.cands, strip(SubSeq(t, st.begin, p)))])

RECURSIVE SplitLines(_)
SplitLines(cands) ==
    IF cands = <<>> THEN <<>>
    ELSE SplitAt(Head(cands), NEWLINE) \o SplitLines(Tail(cands))

\* Phase 1: [raised, out], out the candidate sentences
BreakOnDelimiters(t0, pat) ==
    LET t == strip(RemoveChar(t0, CARRIAGE_RETURN))
        st == FindIter(t, pat, 1, [begin |-> 1, cands |-> <<>>])
        s == strip(SubSeq(t, st.begin, Len(t)))
    IN  IF Len(s) = 1 /\ st.cands = <<>>
        THEN [raised |-> "IndexError", out |-> <<>>]
        ELSE [raised |-> "none", out |-> SplitLines(AddCandidate(st.cands, s))]

\* Phase 2, the loop from candidate k on: st = [final, buf, bad, raised]
RECURSIVE MergeRuns(_, _, _, _)
MergeRuns(cands, lang, k, st) ==
    IF k > Len(cands) \/ st.raised # "none" THEN st
    ELSE LET sentence == cands[k]
             words == SplitAt(sentence, SPACE)
             last == words[Len(words)]
             flushed == IF Len(st.buf) > 0 THEN Append(st.final, st.buf) ELSE st.final
         IN  IF Len(sentence) = 0
                THEN [st EXCEPT !.raised = "IndexError"]
             ELSE IF Len(words) = 1 /\ sentence[Len(sentence)] = PERIOD
                THEN MergeRuns(cands, lang, k + 1,
                         [st EXCEPT !.bad = TRUE, !.buf = st.buf \o <<SPACE>> \o sentence])
             ELSE IF /\ sentence[Len(sentence)] = PERIOD
                     /\ is_acronym_abbvr(SubSeq(last, 1, Len(last) - 1), lang)
                THEN MergeRuns(cands, lang, k + 1,
                         [st EXCEPT !.final = IF ~st.bad THEN flushed ELSE st.final,
                                    !.bad = TRUE, !.buf = sentence])
             ELSE IF st.bad
                THEN MergeRuns(cands, lang, k + 1,
                         [st EXCEPT !.final = Append(st.final, st.buf \o <<SPACE>> \o sentence),
                                    !.buf = <<>>, !.bad = FALSE])
             ELSE MergeRuns(cands, lang, k + 1,
                         [st EXCEPT !.final = flushed, !.buf = sentence, !.bad = FALSE])

\* does phase 2 run: delim_pat.search('.')
RunsPhase2(pat) == PERIOD \in pat

\* sentence_split(text, lang, delim_pat): [raised, out, cands], cands the
\* candidate sentences of phase 1
sentence_split(t, lang, delim_pat) ==
    LET pat == DelimiterPattern(t, lang, delim_pat)
        phase2(cands) ==
            LET st == MergeRuns(cands, lang, 1,
                                [final |-> <<>>, buf |-> <<>>, bad |-> FALSE, raised |-> "none"])
            IN  IF st.raised # "none"
                THEN [raised |-> st.raised, out |-> <<>>, cands |-> cands]
                ELSE [raised |-> "none",
                      out |-> IF Len(st.buf) > 0 THEN Append(st.final, st.buf) ELSE st.final,
                      cands |-> cands]
        after(p1) ==
            IF p1.raised # "none" THEN [raised |-> p1.raised, out |-> <<>>, cands |-> <<>>]
            ELSE IF ~RunsPhase2(pat) THEN [raised |-> "none", out |-> p1.out, cands |-> p1.out]
            ELSE phase2(p1.out)
    IN  Then(BreakOnDelimiters(t, pat), after)

\* sentence_split(text, requested): `pre` holds the candidate sentences
SentenceSplit ==
    /\ pc = "input"
    /\ \E r \in {sentence_split(text, requested, "auto")} :
           /\ result' = [raised |-> r.raised, out |-> r.out]
           /\ pre' = r.cands
    /\ pc' = "split"
    /\ UNCHANGED <<normalizer, built, outcome, requested, text>>
    /\ UNCHANGED process

(***************************************************************************)
(* SpecSentence: sentence_split on texts put together from short pieces:   *)
(* a phrase ending in a single letter and a period, a word with and        *)
(* without a period, a single letter with a period, a space and a line     *)
(* end or a danda.                                                         *)
(***************************************************************************)
MaxPieces == 3

SentenceLanguages == {"en", "hi", "ur"}

Pieces(lang) ==
    CASE lang = "en" ->
           { <<\H0062, SPACE, \H0041, PERIOD>>, <<\H0063, \H0063, PERIOD>>,
             <<\H0063, \H0063>>, <<\H0041, PERIOD>>, <<SPACE>>, <<NEWLINE>> }
      [] lang = "hi" ->
           { <<\H0915, SPACE, \H090F, PERIOD>>, <<\H0915, \H093E, PERIOD>>,
             <<\H0915, \H093E>>, <<\H090F, PERIOD>>, <<SPACE>>, <<\H0915, \H093E, \H0964>> }
      [] lang = "ur" ->
           { <<\H0628, \H0627, \H06D4>>, <<\H0628, \H0627, PERIOD>>, <<\H0628, \H0627>>,
             <<SPACE>> }

SentenceTexts(lang) == UNION { SequencesOf(Pieces(lang), k) : k \in 0..MaxPieces }

SentenceInit ==
    /\ normalizer = NoNormalizer
    /\ built = NoNormalizer
    /\ outcome = "none"
    /\ requested \in SentenceLanguages
    /\ text \in SentenceTexts(requested)
    /\ pc = "input"
    /\ pre = <<>>
    /\ result = NoResult
    /\ process = NoProcess

NextSentence == SentenceSplit

SpecSentence == SentenceInit /\ [][NextSentence]_vars

\* s occurs in t as a run of adjacent characters
Infix(s, t) == \E i \in 0..(Len(t) - Len(s)) : SubSeq(t, i + 1, i + Len(s)) = s

\* the candidate ends in a period after a non-breaking phrase
EndsInNonBreakingPhrase(c, lang) ==
    /\ Len(c) > 1
    /\ c[Len(c)] = PERIOD
    /\ \E words \in {SplitAt(c, SPACE)} :
           is_acronym_abbvr(SubSeq(words[Len(words)], 1, Len(words[Len(words)]) - 1), lang)

\* C19: when a candidate sentence ends in '.' after a non-breaking phrase and
\* another candidate follows, the two are joined, with a space, into one
\* returned sentence.
C19_NonBreakingJoined ==
    (pc = "split" /\ result.raised = "none" /\ RunsPhase2(DelimiterPattern(text, requested, "auto")))
        => \A k \in 1..(Len(pre) - 1) :
               EndsInNonBreakingPhrase(pre[k], requested)
                   => \E j \in 1..Len(result.out) :
                          Infix(pre[k] \o <<SPACE>> \o pre[k + 1], result.out[j])

(***************************************************************************)
(* SpecStrict: the Devanagari and Tamil normalizers with and without       *)
(* nasals_mode to_anusvaara_strict, on texts of a velar and a dental       *)
(* nasal, the halant, a velar and a dental consonant and a vowel.          *)
(***************************************************************************)
StrictLen == 4

StrictLanguages == {"hi", "ta"}

StrictKwargs == {NoKwargs, [nasals_mode |-> "to_anusvaara_strict"]}

StrictAlphabet(lang) ==
    { offset_to_char(off, lang) : off \in {\H19, \H28, HALANTA_OFFSET, \H15, \H24, \H05} }

StrictTexts(lang) == TextsOver(StrictAlphabet(lang), StrictLen)

NextStrict ==
    \/ \E lang \in StrictLanguages, kw \in StrictKwargs : GetNormalizer(lang, kw)
    \/ /\ outcome = "ok"
       /\ \E t \in StrictTexts(normalizer.lang) : NormalizeCall(t, "none")
    \/ Consume

SpecStrict == Init /\ [][NextStrict]_vars

\* t starts with a nasal, the halant and a consonant of that nasal's row
HomorganicStart(t, lang) ==
    /\ Len(t) >= 3
    /\ t[2] = offset_to_char(HALANTA_OFFSET, lang)
    /\ \E k \in 1..Len(pat_signatures) :
           /\ t[1] = offset_to_char(pat_signatures[k][1], lang)
           /\ get_offset(t[3], lang) >= pat_signatures[k][2]
           /\ get_offset(t[3], lang) <= pat_signatures[k][3]

\* t with the anusvaara in place of every nasal + halant that stands before
\* a consonant of the nasal's row, and nothing else changed
RECURSIVE HomorganicToAnusvaara(_, _)
HomorganicToAnusvaara(t, lang) ==
    IF t = <<>> THEN <<>>
    ELSE IF HomorganicStart(t, lang)
         THEN <<offset_to_char(anusvaara_offset, lang)>>
                  \o HomorganicToAnusvaara(Tail(Tail(t)), lang)
         ELSE <<Head(t)>> \o HomorganicToAnusvaara(Tail(t), lang)

\* C20: in to_anusvaara_strict mode a nasal + halant becomes the anusvaara
\* only before a consonant of the nasal's homorganic range; before any other
\* character or at the end of the text it stays, as does every other
\* character.
C20_StrictOnlyHomorganic ==
    (ReturnedText /\ normalizer.nasals_mode = "to_anusvaara_strict")
        => result.out = HomorganicToAnusvaara(text, normalizer.lang)

\* velar nasal + halant + velar consonant turned into anusvaara + consonant,
\* the dental consonant after it kept
C20_Witness ==
    /\ ReturnedText
    /\ normalizer.nasals_mode = "to_anusvaara_strict"
    /\ text = <<\H0919, \H094D, \H0915, \H0924>>
    /\ result.out = <<\H0902, \H0915, \H0924>>

\* velar nasal + halant before a dental consonant and at the end of the text
C20_Unchanged ==
    (ReturnedText /\ normalizer.nasals_mode = "to_anusvaara_strict"
         /\ text \in {<<\H0919, \H094D, \H0924>>, <<\H0919, \H094D>>})
        => result.out = text

(***************************************************************************)
(* SpecRelaxed: the Devanagari and Tamil normalizers with and without      *)
(* nasals_mode to_anusvaara_relaxed, on texts of a velar and a dental      *)
(* nasal, the halant, a consonant, a vowel and the comma.                  *)
(***************************************************************************)
RelaxedLanguages == {"hi", "ta"}

RelaxedKwargs == {NoKwargs, [nasals_mode |-> "to_anusvaara_relaxed"]}

RelaxedAlphabet(lang) ==
    { offset_to_char(off, lang) : off \in {\H19, \H28, HALANTA_OFFSET, \H15, \H05} }
        \cup {COMMA}

RelaxedTexts(lang) == TextsOver(RelaxedAlphabet(lang), StrictLen)

NextRelaxed ==
    \/ \E lang \in RelaxedLanguages, kw \in RelaxedKwargs : GetNormalizer(lang, kw)
    \/ /\ outcome = "ok"
       /\ \E t \in RelaxedTexts(normalizer.lang) : NormalizeCall(t, "none")
    \/ Consume

SpecRelaxed == Init /\ [][NextRelaxed]_vars

\* the six nasal consonants of the language's script
SixNasals(lang) == { offset_to_char(nasals_list[k], lang) : k \in 1..Len(nasals_list) }

\* t with the anusvaara in place of every nasal + halant and nothing else
\* changed
RECURSIVE NasalHalantToAnusvaara(_, _)
NasalHalantToAnusvaara(t, lang) ==
    IF Len(t) < 2 THEN t
    ELSE IF t[1] \in SixNasals(lang) /\ t[2] = offset_to_char(HALANTA_OFFSET, lang)
         THEN <<offset_to_char(anusvaara_offset, lang)>>
                  \o NasalHalantToAnusvaara(Tail(Tail(t)), lang)
         ELSE <<Head(t)>> \o NasalHalantToAnusvaara(Tail(t), lang)

\* C21: in to_anusvaara_relaxed mode exactly the sequences of one of the six
\* nasal consonants and the halant become the anusvaara, whatever follows; a
\* halant after any other character, and every other character, stays.
C21_RelaxedExactlyNasalHalant ==
    (ReturnedText /\ normalizer.nasals_mode = "to_anusvaara_relaxed")
        => result.out = NasalHalantToAnusvaara(text, normalizer.lang)

\* the same on the texts without a comma
RelaxedWithoutComma ==
    (ReturnedText /\ normalizer.nasals_mode = "to_anusvaara_relaxed" /\ ~Contains(text, COMMA))
        => result.out = NasalHalantToAnusvaara(text, normalizer.lang)

(***************************************************************************)
(* SpecChillu: the Malayalam normalizer with do_canonicalize_chillus, with *)
(* and without do_explicit_half_u, on texts of a chillu, its base          *)
(* consonant, the virama, the vowel sign U, a vowel and a space.           *)
(***************************************************************************)
ChilluLen == 4

ChilluKwargs ==
    { [do_canonicalize_chillus |-> TRUE],
      [do_explicit_half_u |-> TRUE, do_canonicalize_chillus |-> TRUE] }

ChilluAlphabet == {\H0D7B, \H0D28, MalayalamVIRAMA, \H0D41, \H0D05, SPACE}

ChilluTexts == TextsOver(ChilluAlphabet, ChilluLen)

NextChillu ==
    \/ \E kw \in ChilluKwargs : GetNormalizer("ml", kw)
    \/ \E t \in ChilluTexts : NormalizeCall(t, "none")
    \/ Consume

SpecChillu == Init /\ [][NextChillu]_vars

\* the base consonant of an atomic chillu, or 0 for any other character
ChilluBase(c) ==
    IF \E k \in 1..Len(CHILLU_CHAR_MAP) : CHILLU_CHAR_MAP[k][1] = c
    THEN CHILLU_CHAR_MAP[CHOOSE k \in 1..Len(CHILLU_CHAR_MAP) : CHILLU_CHAR_MAP[k][1] = c][2]
    ELSE 0

\* t starts with a consonant and a virama that end a word
FinalViramaStart(t) ==
    /\ Len(t) >= 2
    /\ t[1] \in MalayalamConsonants
    /\ t[2] = MalayalamVIRAMA
    /\ (Len(t) = 2 \/ t[3] \notin MalayalamBlock)

\* t with every atomic chillu as consonant + virama and every word-final
\* consonant + virama of t as consonant + U + virama
RECURSIVE HalfUThenChillus(_)
HalfUThenChillus(t) ==
    IF t = <<>> THEN <<>>
    ELSE IF ChilluBase(Head(t)) # 0
         THEN <<ChilluBase(Head(t)), MalayalamVIRAMA>> \o HalfUThenChillus(Tail(t))
    ELSE IF FinalViramaStart(t)
         THEN <<Head(t), \H0D41, MalayalamVIRAMA>> \o HalfUThenChillus(Tail(Tail(t)))
    ELSE <<Head(t)>> \o HalfUThenChillus(Tail(t))

BothChilluOptions ==
    /\ ReturnedFrom("MalayalamNormalizer")
    /\ normalizer.opt["do_explicit_half_u"]
    /\ normalizer.opt["do_canonicalize_chillus"]

\* C22: with do_explicit_half_u and do_canonicalize_chillus the half-u is
\* marked before the chillus are canonicalized: an atomic chillu is returned
\* as consonant + virama, without U+0D41, also at the end of a word, while a
\* word-final consonant + virama of the input is returned as consonant +
\* U+0D41 + virama.
C22_HalfUBeforeChillus ==
    BothChilluOptions => result.out = HalfUThenChillus(text)

\* a word ending in the chillu N and a word ending in NA + virama
C22_Witness ==
    /\ BothChilluOptions
    /\ text = <<\H0D7B, SPACE, \H0D28, MalayalamVIRAMA>>
    /\ result.out = <<\H0D28, MalayalamVIRAMA, SPACE, \H0D28, \H0D41, MalayalamVIRAMA>>

(***************************************************************************)
(* SpecKashmiri: the Kashmiri Devanagari normalizer on texts of a          *)
(* consonant, the avagraha, the vowel sign AA and the signs and letters    *)
(* of the earlier orthographies.                                           *)
(***************************************************************************)
KashmiriKwargs == {NoKwargs, [do_convert_vowels_with_apostrophe_to_short |-> TRUE]}

KashmiriAlphabet == {\H0915, \H093D, \H093E, \H0945, \H0949, \H0972, \H0911}

KashmiriTexts == TextsOver(KashmiriAlphabet, MaxLen)

NextKashmiri ==
    \/ \E kw \in KashmiriKwargs : GetNormalizer("ks_IN", kw)
    \/ \E t \in KashmiriTexts : NormalizeCall(t, "none")
    \/ Consume

SpecKashmiri == Init /\ [][NextKashmiri]_vars

\* the signs and letters of the orthographies before 2009
OldKashmiriSigns == {\H093D, \H0945, \H0949, \H0972, \H0911}

\* a text of KashmiriAlphabet in the 2009 orthography: the Devanagari vowel
\* merge first, then the 1995 rules, then the 2002 rules
RECURSIVE In2009Orthography(_)
In2009Orthography(t) ==
    IF t = <<>> THEN <<>>
    ELSE IF Len(t) >= 2 /\ t[1] = \H093E /\ t[2] = \H0945
         THEN <<\H093B>> \o In2009Orthography(Tail(Tail(t)))
    ELSE IF Len(t) >= 2 /\ t[1] = \H0915 /\ t[2] = \H093D
         THEN <<\H0915, \H093A>> \o In2009Orthography(Tail(Tail(t)))
    ELSE << CASE Head(t) = \H093D -> \H0973
              [] Head(t) = \H0945 -> \H093A
              [] Head(t) = \H0949 -> \H093B
              [] Head(t) = \H0972 -> \H0973
              [] Head(t) = \H0911 -> \H0974
              [] OTHER -> Head(t) >> \o In2009Orthography(Tail(t))

DefaultKashmiri ==
    /\ ReturnedFrom("KashmiriDevanagariNormalizer")
    /\ normalizer.opt["do_convert_1995_to_2002_orthography"]
    /\ normalizer.opt["do_convert_2002_to_2009_orthography"]
    /\ ~normalizer.opt["do_convert_vowels_with_apostrophe_to_short"]

\* C23: with default options the Kashmiri normalizer applies the 1995-to-2002
\* conversion and then the 2002-to-2009 conversion, after the Devanagari
\* rules, and its output holds none of U+093D, U+0945, U+0949, U+0972, U+0911.
C23_KashmiriOldSignsGone ==
    DefaultKashmiri =>
        /\ ~Has(result.out, OldKashmiriSigns)
        /\ result.out = In2009Orthography(text)

\* consonant + avagraha and a lone avagraha, returned as consonant + U+093A
\* and U+0973
C23_Witness ==
    /\ DefaultKashmiri
    /\ text = <<\H0915, \H093D, \H093D>>
    /\ result.out = <<\H0915, \H093A, \H0973>>

(***************************************************************************)
(* SpecDecimal: sentence_split on texts put together from a decimal        *)
(* number, a two-word sentence with its period, a single letter with a     *)
(* period, a digit and a space.  In these texts a period after a digit is  *)
(* always followed by a digit.                                             *)
(***************************************************************************)
DecimalLanguages == {"en", "hi"}

DecimalPieces(lang) ==
    CASE lang = "en" ->
           { <<\H0031, PERIOD, \H0032, \H0035>>, <<\H0062, SPACE, \H0063, \H0063, PERIOD>>,
             <<\H0041, PERIOD>>, <<\H0037>>, <<SPACE>> }
      [] lang = "hi" ->
           { <<\H0967, PERIOD, \H0968, \H096B>>, <<\H0915, SPACE, \H0915, \H093E, PERIOD>>,
             <<\H090F, PERIOD>>, <<\H096D>>, <<SPACE>> }

DecimalTexts(lang) == UNION { SequencesOf(DecimalPieces(lang), k) : k \in 0..MaxPieces }

DecimalInit ==
    /\ normalizer = NoNormalizer
    /\ built = NoNormalizer
    /\ outcome = "none"
    /\ requested \in DecimalLanguages
    /\ text \in DecimalTexts(requested)
    /\ pc = "input"
    /\ pre = <<>>
    /\ result = NoResult
    /\ process = NoProcess

NextDecimal == SentenceSplit

SpecDecimal == DecimalInit /\ [][NextDecimal]_vars

\* the number of periods of t that stand between two numeric characters
DecimalPoints(t) ==
    Cardinality({ p \in 2..(Len(t) - 1) :
                    t[p] = PERIOD /\ isnumeric(t[p - 1]) /\ isnumeric(t[p + 1]) })

RECURSIVE DecimalPointsIn(_)
DecimalPointsIn(sentences) ==
    IF sentences = <<>> THEN 0
    ELSE DecimalPoints(Head(sentences)) + DecimalPointsIn(Tail(sentences))

\* the sentence ends with a numeric character and a period
EndsAtDecimalPoint(s) ==
    Len(s) >= 2 /\ s[Len(s)] = PERIOD /\ isnumeric(s[Len(s) - 1])

QuoteLanguages == {"en", "ur"}

QuotePieces(lang) ==
    CASE lang = "en" ->
           { <<DQUOTE>>, <<\H0063, \H0063, PERIOD>>, <<\H0064, \H0064, \H003F>>,
             <<DQUOTE, \H0063, \H0063, PERIOD>>, <<SPACE>> }
      [] lang = "ur" ->
           { <<DQUOTE>>, <<\H0628, \H0627, \H06D4>>, <<\H0628, \H0627, \H061F>>,
             <<DQUOTE, \H0628, \H0627, \H06D4>>, <<SPACE>> }

QuoteTexts(lang) == UNION { SequencesOf(QuotePieces(lang), k) : k \in 0..MaxPieces }

QuoteInit ==
    /\ normalizer = NoNormalizer
    /\ built = NoNormalizer
    /\ outcome = "none"
    /\ requested \in QuoteLanguages
    /\ text \in QuoteTexts(requested)
    /\ pc = "input"
    /\ pre = <<>>
    /\ result = NoResult
    /\ process = NoProcess

NextQuotes == SentenceSplit

SpecQuotes == QuoteInit /\ [][NextQuotes]_vars

\* Count(t, c) is the number of occurrences of c in t
QuotesBalanced(t) == Count(t, DQUOTE) > 0 /\ Count(t, DQUOTE) % 2 = 0

\* every delimiter inside the sentence was treated as a boundary: what
\* follows it up to the last character are delimiters too (chunks of one
\* character are appended to the candidate before them)
EveryDelimiterBreaks(s, pat) ==
    \A i \in 1..(Len(s) - 1) :
        s[i] \in pat => \A j \in (i + 1)..(Len(s) - 1) : s[j] \in pat \/ s[j] \in PyWhitespace

\* C25: when the double quotes of the text balance, no boundary is placed at
\* a delimiter with an odd number of double quotes before it, so every
\* candidate and every returned sentence holds an even number of double
\* quotes; when their number is odd they are ignored and every delimiter is
\* a boundary.
C25_QuotesAware ==
    (pc = "split" /\ result.raised = "none") =>
        IF QuotesBalanced(text)
        THEN /\ \A k \in 1..Len(pre) : Count(pre[k], DQUOTE) % 2 = 0
             /\ \A j \in 1..Len(result.out) : Count(result.out[j], DQUOTE) % 2 = 0
        ELSE IF Count(text, DQUOTE) % 2 = 1
        THEN \A k \in 1..Len(pre) :
                 EveryDelimiterBreaks(pre[k], DelimiterPattern(text, requested, "auto"))
        ELSE TRUE

\* a quotation of two sentences, returned as one sentence
C25_Witness ==
    /\ pc = "split"
    /\ text = <<DQUOTE, \H0063, \H0063, PERIOD, \H0064, \H0064, \H003F, DQUOTE>>
    /\ result.out = <<text>>

\* an unbalanced quote before two sentences: two candidates
C25_WitnessUnbalanced ==
    /\ pc = "split"
    /\ text = <<DQUOTE, \H0063, \H0063, PERIOD, \H0064, \H0064, \H003F>>
    /\ Len(pre) = 2

\* C26: sentence_split returns a list of sentences and never raises.
C26_SplitNeverRaises == pc = "split" => result.raised = "none"

\* the characters of t that are not whitespace, in order
WithoutWhitespace(t) == SelectSeq(t, LAMBDA c : c \notin PyWhitespace)

RECURSIVE Concatenated(_)
Concatenated(sentences) ==
    IF sentences = <<>> THEN <<>> ELSE Head(sentences) \o Concatenated(Tail(sentences))

\* C27: sentence_split neither loses nor duplicates text: the returned
\* sentences, concatenated and with whitespace removed, are the input text
\* with whitespace removed.
C27_NoTextLost ==
    (pc = "split" /\ result.raised = "none") =>
        WithoutWhitespace(Concatenated(result.out)) = WithoutWhitespace(text)

\* the same for the candidate sentences of phase 1
CandidatesKeepText ==
    (pc = "split" /\ result.raised = "none") =>
        WithoutWhitespace(Concatenated(pre)) = WithoutWhitespace(text)

\* C28: every sentence sentence_split returns is non-empty and has no
\* leading or trailing whitespace.
C28_SentencesTrimmed ==
    (pc = "split" /\ result.raised = "none") =>
        \A j \in 1..Len(result.out) :
            result.out[j] # <<>> /\ strip(result.out[j]) = result.out[j]

(***************************************************************************)
(* SpecFactory: get_normalizer called, for every supported language, with  *)
(* the two keywords the script passes, and the normalizer used once.       *)
(***************************************************************************)
SupportedLanguages ==
    {"hi", "mr", "sa", "kK", "ne", "sd_IN", "ks_IN", "pa", "gu", "bn", "as", "or", "ml",
     "kn", "ta", "te", "si", "ur", "pnb", "sd", "skr", "ks", "ar", "fa", "en"}

NasalModes ==
    {"do_nothing", "to_anusvaara_strict", "to_anusvaara_relaxed", "to_nasal_consonants"}

FactoryKwargs == { [remove_nuktas |-> r, nasals_mode |-> m] : r \in BOOLEAN, m \in NasalModes }

FactoryTexts == TextsOver({LATIN_SMALL_A, SPACE}, 1)

NextFactory ==
    \/ \E lang \in SupportedLanguages, kw \in FactoryKwargs : GetNormalizer(lang, kw)
    \/ /\ normalizer.cls \in NativeClasses
       /\ \E t \in FactoryTexts : NormalizeCall(t, "none")
    \/ \E t \in FactoryTexts, lb \in LibraryBehaviours : AdapterNormalizeCall(t, lb)
    \/ Consume

SpecFactory == Init /\ [][NextFactory]_vars

\* C29: for every language code is_language_supported accepts, get_normalizer
\* called with remove_nuktas and nasals_mode returns a normalizer without
\* raising.
C29_ScriptKeywordsAccepted ==
    (outcome # "none" /\ is_language_supported(requested)) => outcome = "ok"

\* the same for the languages that are not served by the Urdu, Sindhi,
\* Arabic and Persian adapters
NativeAndEnglishAccepted ==
    (outcome # "none" /\ requested \notin {"ur", "pnb", "skr", "ks", "sd", "ar", "fa"})
        => outcome = "ok"

(***************************************************************************)
(* The fourth argument of the script, checked under SpecScript.            *)
(***************************************************************************)
Created == process.at \in {"created", "opened"}

\* C30: the optional fourth argument selects nukta removal by its value:
\* 'True' enables remove_nuktas, 'False' leaves it disabled, as does omitting
\* the argument.
C30_FourthArgumentByValue ==
    Created => normalizer.opt["remove_nuktas"]
                   = (Len(process.argv) >= 5 /\ process.argv[5] = "True")

\* what the code does: any fourth argument that is present and not the empty
\* string enables remove_nuktas
FourthArgumentByPresence ==
    Created => normalizer.opt["remove_nuktas"]
                   = (Len(process.argv) >= 5 /\ process.argv[5] # "")

====
